---- MODULE Spec2Model ----
(***************************************************************************)
(* Model of the LIS result store (db.py), of the dialogs that drive it     *)
(* (main.py), of the ASTM listener (ServerThread, handle_astm_data) and of *)
(* the message parser (astm_parser.py).                                    *)
(*                                                                         *)
(* Tables are sequences indexed by the integer primary key (rows are never *)
(* deleted, so the key of a new row is Len(table) + 1).  NULL is 0.        *)
(* Text and external identifiers are sequences of one-character strings,   *)
(* buffers read from a socket are sequences of byte values.                *)
(*                                                                         *)
(* Spec, SpecConc, SpecAll: the store operations and the dialogs.          *)
(* SpecFun: one function (identifier generator, frame decoder, parser)     *)
(* applied to one input.  SpecListener, SpecListenerFair: the listener     *)
(* thread, the GUI thread and the clients that connect.                    *)
(* SpecSearch: search_results and search_patients applied to one store.    *)
(* SpecReports: the search of the reports view applied to one store.       *)
(* SpecStream: the listener with clients whose framed message arrives      *)
(* whole or in two parts.                                                  *)
(***************************************************************************)
EXTENDS Integers, Sequences, FiniteSets, TLC

VARIABLES results, patients, doctors, sessions, last, applied, nops,
          fin, fout,
          listener, gui, conns, inbox, origin

\* the store, its sessions and the record of the calls made on it
dbvars == <<results, patients, doctors, sessions, last, applied, nops>>

\* a function of the program applied to one input: the input and what it returned
funvars == <<fin, fout>>

\* the listener thread, the GUI thread (ready or inside stop()), the
\* connections made to the listener, the payloads emitted and not yet
\* handled, and for each Result the connection it came from
lvars == <<listener, gui, conns, inbox, origin>>

\* what the operations on the store leave alone
xvars == <<funvars, lvars>>

\* what the application of a function leaves alone
nonfunvars == <<dbvars, lvars>>

vars == <<dbvars, xvars>>

\* ---- bounds of the model ----
MaxResults == 2
MaxDoctors == 2
MaxOps == 5
NumSessions == 2
MaxSuffix == 30

NULL == 0

DoctorTypes == {"Verification", "Finalization", "Both"}
\* what the patient form supplies: name, age, gender and phone number
PatientInputs ==
  {[name |-> "ann", age |-> 30, gender |-> "F", phone_number |-> "555"],
   [name |-> "bob", age |-> 41, gender |-> "M", phone_number |-> "777"]}

\* ---- external identifiers: f"P{n:07d}", int(s[1:]) ----
Digits == <<"0", "1", "2", "3", "4", "5", "6", "7", "8", "9">>

IdWidth == 7

RECURSIVE DecStr(_)
DecStr(n) ==
  IF n < 10 THEN <<Digits[n + 1]>>
  ELSE Append(DecStr(n \div 10), Digits[(n % 10) + 1])

RECURSIVE ZeroPad(_, _)
ZeroPad(s, w) == IF Len(s) >= w THEN s ELSE ZeroPad(<<"0">> \o s, w)

DigitVal(c) == CHOOSE i \in 0..9 : Digits[i + 1] = c

RECURSIVE ParseInt(_)
ParseInt(s) ==
  IF s = <<>> THEN 0
  ELSE ParseInt(SubSeq(s, 1, Len(s) - 1)) * 10 + DigitVal(s[Len(s)])

Tail_n(s, n) == SubSeq(s, n + 1, Len(s))

\* variant: the next number is two more than the last one
get_next_patient_id_skips(pts) ==
  IF pts # <<>> /\ pts[Len(pts)].patient_id # <<>>
  THEN <<"P">> \o ZeroPad(DecStr(ParseInt(Tail_n(pts[Len(pts)].patient_id, 1)) + 2), IdWidth)
  ELSE <<"P", "0", "0", "0", "0", "0", "0", "1">>

get_next_patient_id(pts) ==
  IF pts # <<>> /\ pts[Len(pts)].patient_id # <<>>
  THEN <<"P">> \o ZeroPad(DecStr(ParseInt(Tail_n(pts[Len(pts)].patient_id, 1)) + 1), IdWidth)
  ELSE <<"P", "0", "0", "0", "0", "0", "0", "1">>

\* variant: the last doctor_id is never read, the first value is returned again
get_next_doctor_id_short_prefix(docs) ==
  <<"D", "O", "C", "0", "0", "0", "0", "0", "0", "1">>

get_next_doctor_id(docs) ==
  IF docs # <<>> /\ docs[Len(docs)].doctor_id # <<>>
  THEN <<"D", "O", "C">> \o ZeroPad(DecStr(ParseInt(Tail_n(docs[Len(docs)].doctor_id, 3)) + 1), IdWidth)
  ELSE <<"D", "O", "C", "0", "0", "0", "0", "0", "0", "1">>

\* ---- rows ----
\* date_time is the text received, or Now for the clock of the application
Now == "now"

\* a Result with empty texts
NewResult ==
  [sample_id |-> <<>>, test_name |-> <<>>, test_result |-> <<>>, unit |-> <<>>,
   reference_range |-> <<>>, date_time |-> Now,
   status |-> "Pending", verified_by_doctor_id |-> NULL,
   finalized_by_doctor_id |-> NULL, patient_id |-> NULL]

\* variant: the filter on the id is lost, first() returns the first row
query_result_unfiltered(rs, result_id) == IF rs # <<>> THEN 1 ELSE NULL

\* db_session.query(ResultDetails).filter(ResultDetails.id == result_id).first():
\* the key of the row, or NULL
query_result(rs, result_id) == IF result_id \in DOMAIN rs THEN result_id ELSE NULL

\* variant: a Finalized Result is left alone by verification
verification_fields_unless_finalized(loaded, doctor_id) ==
  IF loaded.status = "Finalized" THEN loaded
  ELSE [loaded EXCEPT !.verified_by_doctor_id = doctor_id, !.status = "Verified"]

\* variant: the verifier is recorded but the status is left as it was
verification_fields_keeps_status(loaded, doctor_id) ==
  [loaded EXCEPT !.verified_by_doctor_id = doctor_id]

\* the attribute assignments of update_result_verification on the loaded row
verification_fields(loaded, doctor_id) ==
  [loaded EXCEPT !.verified_by_doctor_id = doctor_id, !.status = "Verified"]

\* variant: the finalizer records itself as the verifier whatever the status
finalization_fields_always_verifies(loaded, doctor_id) ==
  [loaded EXCEPT !.verified_by_doctor_id = doctor_id,
                 !.finalized_by_doctor_id = doctor_id, !.status = "Finalized"]

\* variant: the finalizer never records itself as the verifier
finalization_fields_no_implicit_verify(loaded, doctor_id) ==
  [loaded EXCEPT !.finalized_by_doctor_id = doctor_id, !.status = "Finalized"]

\* variant: a Result that is already Finalized keeps its finalizer
finalization_fields_once(loaded, doctor_id) ==
  IF loaded.status = "Finalized" THEN loaded
  ELSE LET r1 == IF loaded.status = "Pending"
                 THEN [loaded EXCEPT !.verified_by_doctor_id = doctor_id]
                 ELSE loaded
       IN [r1 EXCEPT !.finalized_by_doctor_id = doctor_id, !.status = "Finalized"]

\* the attribute assignments of update_result_finalization on the loaded row
finalization_fields(loaded, doctor_id) ==
  LET r1 == IF loaded.status = "Pending"
            THEN [loaded EXCEPT !.verified_by_doctor_id = doctor_id]
            ELSE loaded
  IN [r1 EXCEPT !.finalized_by_doctor_id = doctor_id, !.status = "Finalized"]

\* commit(): the unit of work writes the columns whose value differs from the
\* value the session loaded; the other columns keep what the store holds
\* variant: the UPDATE writes every column of the object the session holds
flush_row_all_columns(row, loaded, edited) == edited

flush_row(row, loaded, edited) ==
  [f \in DOMAIN row |-> IF edited[f] # loaded[f] THEN edited[f] ELSE row[f]]

\* Patient(patient_id=..., name=..., age=..., gender=..., phone_number=...)
Patient(patient_id, name, age, gender, phone_number) ==
  [patient_id |-> patient_id, name |-> name, age |-> age, gender |-> gender,
   phone_number |-> phone_number]

\* variant: the foreign key of the Result is not written with the new Patient
link_patient_not_written(rs, r, patient) == rs

\* result.patient = patient: the foreign key of the Result written at commit
\* variant: linking the Patient saves the Result as a freshly ingested row
link_patient_resets_status(rs, r, patient) ==
  [rs EXCEPT ![r].patient_id = patient, ![r].status = "Pending"]

link_patient(rs, r, patient) == [rs EXCEPT ![r].patient_id = patient]

\* variant: the update branch leaves the phone number as it was
patient_fields_keeps_phone(loaded, name, age, gender, phone_number) ==
  [loaded EXCEPT !.name = name, !.age = age, !.gender = gender]

\* the attribute assignments of the update branch of create_patient_for_result
patient_fields(loaded, name, age, gender, phone_number) ==
  [loaded EXCEPT !.name = name, !.age = age, !.gender = gender,
                 !.phone_number = phone_number]

\* variant: the patients.patient_id column without its UNIQUE index
patient_id_not_checked(pts, pid) == FALSE

\* UNIQUE index on patients.patient_id / doctors.doctor_id
patient_id_taken(pts, pid) == \E i \in DOMAIN pts : pts[i].patient_id = pid

doctor_id_taken(docs, did) == \E i \in DOMAIN docs : docs[i].doctor_id = did

\* variant: every Doctor is offered, whatever its type
get_doctors_by_type_unfiltered(docs, required_type) == DOMAIN docs

\* Doctor rows offered in a dialog's combo box
get_doctors_by_type(docs, required_type) ==
  {i \in DOMAIN docs : docs[i].type = required_type \/ docs[i].type = "Both"}

\* A session (SessionLocal()) of a dialog or of a call in progress: where it is
\* (pc), the Result it was opened for, the row and the linked patient as the
\* session loaded them (its identity map), the doctors offered, and the
\* identifier, the argument and the pending Patient of a row added but not yet
\* committed.
NoPatient == Patient(<<>>, "", 0, "", "")

NoSession == [pc |-> "closed", result_id |-> NULL, loaded |-> NewResult,
              loaded_patient |-> NoPatient, offered |-> {}, new_id |-> <<>>,
              arg |-> "", pending |-> NoPatient]

NoCall == [op |-> "none", result_id |-> NULL, doctor_id |-> NULL, ret |-> "None"]

NoListener ==
  [pc |-> "idle", running |-> FALSE, server_socket |-> "None", conn |-> NULL,
   reported |-> "", stop_in_loop |-> FALSE]

NoInput == [fn |-> "none"]
NoOutput == [returned |-> FALSE]

Init ==
  /\ results = <<>>
  /\ patients = <<>>
  /\ doctors = <<>>
  /\ sessions = [s \in 1..NumSessions |-> NoSession]
  /\ last = NoCall
  /\ applied = <<>>
  /\ nops = 0
  /\ fin = NoInput
  /\ fout = NoOutput
  /\ listener = NoListener
  /\ gui = "ready"
  /\ conns = <<>>
  /\ inbox = <<>>
  /\ origin = <<>>

Tick == nops < MaxOps /\ nops' = nops + 1

\* ---- the db.py operations, each run to completion on a fresh session ----
insert_result_details ==
  /\ Tick
  /\ Len(results) < MaxResults
  /\ results' = Append(results, NewResult)
  /\ applied' = Append(applied, <<>>)
  /\ last' = [op |-> "insert_result_details", result_id |-> Len(results) + 1,
              doctor_id |-> NULL, ret |-> "row"]
  /\ UNCHANGED <<patients, doctors, sessions>>
  /\ UNCHANGED xvars

add_doctor(doctor_type) ==
  /\ Tick
  /\ Len(doctors) < MaxDoctors
  /\ LET did == get_next_doctor_id(doctors) IN
       IF doctor_id_taken(doctors, did)
       THEN /\ last' = [op |-> "add_doctor", result_id |-> NULL, doctor_id |-> NULL,
                        ret |-> "IntegrityError"]
            /\ UNCHANGED doctors
       ELSE /\ doctors' = Append(doctors, [doctor_id |-> did, type |-> doctor_type])
            /\ last' = [op |-> "add_doctor", result_id |-> NULL,
                        doctor_id |-> Len(doctors) + 1, ret |-> "row"]
  /\ UNCHANGED <<results, patients, sessions, applied>>
  /\ UNCHANGED xvars

update_result_verification(result_id, doctor_id) ==
  /\ Tick
  /\ LET r == query_result(results, result_id) IN
       IF r # NULL
       THEN /\ results' = [results EXCEPT ![r] =
                 flush_row(results[r], results[r], verification_fields(results[r], doctor_id))]
            /\ applied' = [applied EXCEPT ![r] = Append(@, <<"verify", doctor_id>>)]
            /\ last' = [op |-> "verify", result_id |-> result_id,
                        doctor_id |-> doctor_id, ret |-> "row"]
       ELSE /\ last' = [op |-> "verify", result_id |-> result_id,
                        doctor_id |-> doctor_id, ret |-> "None"]
            /\ UNCHANGED <<results, applied>>
  /\ UNCHANGED <<patients, doctors, sessions>>
  /\ UNCHANGED xvars

update_result_finalization(result_id, doctor_id) ==
  /\ Tick
  /\ LET r == query_result(results, result_id) IN
       IF r # NULL
       THEN /\ results' = [results EXCEPT ![r] =
                 flush_row(results[r], results[r], finalization_fields(results[r], doctor_id))]
            /\ applied' = [applied EXCEPT ![r] = Append(@, <<"finalize", doctor_id>>)]
            /\ last' = [op |-> "finalize", result_id |-> result_id,
                        doctor_id |-> doctor_id, ret |-> "row"]
       ELSE /\ last' = [op |-> "finalize", result_id |-> result_id,
                        doctor_id |-> doctor_id, ret |-> "None"]
            /\ UNCHANGED <<results, applied>>
  /\ UNCHANGED <<patients, doctors, sessions>>
  /\ UNCHANGED xvars

create_patient_for_result(result_id, name, age, gender, phone_number) ==
  /\ Tick
  /\ LET r == query_result(results, result_id) IN
       IF r = NULL
       THEN /\ last' = [op |-> "create_patient", result_id |-> result_id,
                        doctor_id |-> NULL, ret |-> "None"]
            /\ UNCHANGED <<results, patients>>
       ELSE IF results[r].patient_id # NULL
       THEN /\ patients' = [patients EXCEPT ![results[r].patient_id] =
                 flush_row(@, @, patient_fields(@, name, age, gender, phone_number))]
            /\ last' = [op |-> "create_patient", result_id |-> result_id,
                        doctor_id |-> NULL, ret |-> "row"]
            /\ UNCHANGED results
       ELSE LET pid == get_next_patient_id(patients) IN
            IF patient_id_taken(patients, pid)
            THEN /\ last' = [op |-> "create_patient", result_id |-> result_id,
                             doctor_id |-> NULL, ret |-> "IntegrityError"]
                 /\ UNCHANGED <<results, patients>>
            ELSE /\ patients' = Append(patients,
                      Patient(pid, name, age, gender, phone_number))
                 /\ results' = link_patient(results, r, Len(patients) + 1)
                 /\ last' = [op |-> "create_patient", result_id |-> result_id,
                             doctor_id |-> NULL, ret |-> "row"]
  /\ UNCHANGED <<doctors, sessions, applied>>
  /\ UNCHANGED xvars

\* ---- the dialogs of main.py: one session per dialog, shared store ----
Closed(s) == sessions[s].pc = "closed"

load_result(s, result_id, pc) ==
  [NoSession EXCEPT !.pc = pc, !.result_id = result_id, !.loaded = results[result_id],
     !.loaded_patient = IF results[result_id].patient_id # NULL
                        THEN patients[results[result_id].patient_id] ELSE NoPatient]

VerificationDetailsWindow_init(s, result_id) ==
  /\ Tick
  /\ Closed(s)
  /\ result_id \in DOMAIN results
  /\ sessions' = [sessions EXCEPT ![s] =
       [load_result(s, result_id, "verification") EXCEPT
          !.offered = get_doctors_by_type(doctors, "Verification")]]
  /\ UNCHANGED <<results, patients, doctors, last, applied>>
  /\ UNCHANGED xvars

perform_verification(s, doctor_id) ==
  /\ sessions[s].pc = "verification"
  /\ doctor_id \in sessions[s].offered
  /\ LET r == query_result(results, sessions[s].result_id)
         loaded == sessions[s].loaded IN
       /\ r # NULL
       /\ results' = [results EXCEPT ![r] =
            flush_row(results[r], loaded, verification_fields(loaded, doctor_id))]
       /\ applied' = [applied EXCEPT ![r] = Append(@, <<"verify", doctor_id>>)]
       /\ last' = [op |-> "verify", result_id |-> r, doctor_id |-> doctor_id, ret |-> "row"]
  /\ sessions' = [sessions EXCEPT ![s] = NoSession]
  /\ UNCHANGED <<patients, doctors, nops>>
  /\ UNCHANGED xvars

FinalizationDetailsWindow_init(s, result_id) ==
  /\ Tick
  /\ Closed(s)
  /\ result_id \in DOMAIN results
  /\ sessions' = [sessions EXCEPT ![s] =
       [load_result(s, result_id, "finalization") EXCEPT
          !.offered = get_doctors_by_type(doctors, "Finalization")]]
  /\ UNCHANGED <<results, patients, doctors, last, applied>>
  /\ UNCHANGED xvars

\* the finalize button is disabled when the dialog found the Result Finalized
finalize_button_enabled(loaded) == loaded.status # "Finalized"

perform_finalization(s, doctor_id) ==
  /\ sessions[s].pc = "finalization"
  /\ finalize_button_enabled(sessions[s].loaded)
  /\ doctor_id \in sessions[s].offered
  /\ LET r == query_result(results, sessions[s].result_id)
         loaded == sessions[s].loaded IN
       /\ r # NULL
       /\ results' = [results EXCEPT ![r] =
            flush_row(results[r], loaded, finalization_fields(loaded, doctor_id))]
       /\ applied' = [applied EXCEPT ![r] = Append(@, <<"finalize", doctor_id>>)]
       /\ last' = [op |-> "finalize", result_id |-> r, doctor_id |-> doctor_id, ret |-> "row"]
  /\ sessions' = [sessions EXCEPT ![s] = NoSession]
  /\ UNCHANGED <<patients, doctors, nops>>
  /\ UNCHANGED xvars

ResultDetailsWindow_init(s, result_id) ==
  /\ Tick
  /\ Closed(s)
  /\ result_id \in DOMAIN results
  /\ sessions' = [sessions EXCEPT ![s] = load_result(s, result_id, "patient")]
  /\ UNCHANGED <<results, patients, doctors, last, applied>>
  /\ UNCHANGED xvars

\* save_patient_info up to the commit inside create_patient_for_result: the
\* update branch commits at once, the create branch has read the last patient
\* and holds the new Patient pending
save_patient_info(s, name, age, gender, phone_number) ==
  /\ sessions[s].pc \in {"patient", "patient_expired"}
  /\ LET fresh == load_result(s, sessions[s].result_id, "patient")
         loaded == IF sessions[s].pc = "patient_expired"
                   THEN fresh.loaded ELSE sessions[s].loaded
         loaded_patient == IF sessions[s].pc = "patient_expired"
                           THEN fresh.loaded_patient
                           ELSE sessions[s].loaded_patient IN
       IF loaded.patient_id # NULL
       THEN /\ patients' = [patients EXCEPT ![loaded.patient_id] =
                 flush_row(@, loaded_patient,
                   patient_fields(loaded_patient, name, age, gender, phone_number))]
            /\ last' = [op |-> "create_patient", result_id |-> sessions[s].result_id,
                        doctor_id |-> NULL, ret |-> "row"]
            /\ sessions' = [sessions EXCEPT ![s] = NoSession]
       ELSE /\ sessions' = [sessions EXCEPT ![s].pc = "patient_commit",
                 ![s].new_id = get_next_patient_id(patients),
                 ![s].pending = Patient(get_next_patient_id(patients),
                                        name, age, gender, phone_number)]
            /\ UNCHANGED <<patients, last>>
  /\ UNCHANGED <<results, doctors, applied, nops>>
  /\ UNCHANGED xvars

\* db_session.commit() of the create branch: INSERT the Patient, UPDATE the link
create_patient_commit(s) ==
  /\ sessions[s].pc = "patient_commit"
  /\ LET r == sessions[s].result_id IN
       IF patient_id_taken(patients, sessions[s].new_id)
       THEN \* IntegrityError: rollback, the dialog stays open with its objects
            \* expired (reloaded from the store at their next use)
            /\ last' = [op |-> "create_patient", result_id |-> r,
                        doctor_id |-> NULL, ret |-> "IntegrityError"]
            /\ sessions' = [sessions EXCEPT ![s] =
                 [NoSession EXCEPT !.pc = "patient_expired", !.result_id = r]]
            /\ UNCHANGED <<results, patients>>
       ELSE /\ patients' = Append(patients, sessions[s].pending)
            /\ results' = link_patient(results, r, Len(patients) + 1)
            /\ last' = [op |-> "create_patient", result_id |-> r,
                        doctor_id |-> NULL, ret |-> "row"]
            /\ sessions' = [sessions EXCEPT ![s] = NoSession]
  /\ UNCHANGED <<doctors, applied, nops>>
  /\ UNCHANGED xvars

\* add_doctor up to its commit: the next identifier is read, the row is pending
add_doctor_to_db(s, doctor_type) ==
  /\ Tick
  /\ Closed(s)
  /\ Len(doctors) < MaxDoctors
  /\ sessions' = [sessions EXCEPT ![s] = [NoSession EXCEPT !.pc = "doctor_commit",
       !.new_id = get_next_doctor_id(doctors), !.arg = doctor_type]]
  /\ UNCHANGED <<results, patients, doctors, last, applied>>
  /\ UNCHANGED xvars

add_doctor_commit(s) ==
  /\ sessions[s].pc = "doctor_commit"
  /\ IF doctor_id_taken(doctors, sessions[s].new_id)
     THEN /\ last' = [op |-> "add_doctor", result_id |-> NULL, doctor_id |-> NULL,
                      ret |-> "IntegrityError"]
          /\ UNCHANGED doctors
     ELSE /\ doctors' = Append(doctors,
               [doctor_id |-> sessions[s].new_id, type |-> sessions[s].arg])
          /\ last' = [op |-> "add_doctor", result_id |-> NULL,
                      doctor_id |-> Len(doctors) + 1, ret |-> "row"]
  /\ sessions' = [sessions EXCEPT ![s] = NoSession]
  /\ UNCHANGED <<results, patients, applied, nops>>
  /\ UNCHANGED xvars

\* the dialog is dismissed without saving
closeEvent(s) ==
  /\ sessions[s].pc \in {"verification", "finalization", "patient", "patient_expired"}
  /\ sessions' = [sessions EXCEPT ![s] = NoSession]
  /\ UNCHANGED <<results, patients, doctors, last, applied, nops>>
  /\ UNCHANGED xvars

ResultIds == 1..(Len(results) + 1)
DoctorIds == DOMAIN doctors

Next ==
  \/ insert_result_details
  \/ \E t \in DoctorTypes : add_doctor(t)
  \/ \E r \in ResultIds, d \in DoctorIds : update_result_verification(r, d)
  \/ \E r \in ResultIds, d \in DoctorIds : update_result_finalization(r, d)
  \/ \E r \in ResultIds, p \in PatientInputs :
       create_patient_for_result(r, p.name, p.age, p.gender, p.phone_number)

Spec == Init /\ [][Next]_vars

SessionIds == 1..NumSessions

NextConc ==
  \/ insert_result_details
  \/ \E s \in SessionIds, t \in DoctorTypes : add_doctor_to_db(s, t)
  \/ \E s \in SessionIds : add_doctor_commit(s)
  \/ \E s \in SessionIds, r \in DOMAIN results : VerificationDetailsWindow_init(s, r)
  \/ \E s \in SessionIds, d \in DoctorIds : perform_verification(s, d)
  \/ \E s \in SessionIds, r \in DOMAIN results : FinalizationDetailsWindow_init(s, r)
  \/ \E s \in SessionIds, d \in DoctorIds : perform_finalization(s, d)
  \/ \E s \in SessionIds, r \in DOMAIN results : ResultDetailsWindow_init(s, r)
  \/ \E s \in SessionIds, p \in PatientInputs :
       save_patient_info(s, p.name, p.age, p.gender, p.phone_number)
  \/ \E s \in SessionIds : create_patient_commit(s)
  \/ \E s \in SessionIds : closeEvent(s)

SpecConc == Init /\ [][NextConc]_vars

\* direct calls and dialogs together
NextAll == Next \/ NextConc

SpecAll == Init /\ [][NextAll]_vars

\* ---- the identifier sequences ----
\* the n-th identifier of a sequence written out digit by digit, n < 10^7
SevenDigits(n) ==
  <<Digits[((n \div 1000000) % 10) + 1], Digits[((n \div 100000) % 10) + 1],
    Digits[((n \div 10000) % 10) + 1], Digits[((n \div 1000) % 10) + 1],
    Digits[((n \div 100) % 10) + 1], Digits[((n \div 10) % 10) + 1],
    Digits[(n % 10) + 1]>>

PatientIdOf(n) == <<"P">> \o SevenDigits(n)
DoctorIdOf(n) == <<"D", "O", "C">> \o SevenDigits(n)

\* ---- the identifier generators applied to a table ----
\* numbers next to a carry, up to the last one that fits on 7 digits
CarrySuffixes == {98, 99, 999, 9999, 99999, 999999, 9999998, 9999999}
Suffixes == (1..MaxSuffix) \cup CarrySuffixes

PatientRow(n) == Patient(PatientIdOf(n), "ann", 30, "F", "555")
DoctorRow(n) == [doctor_id |-> DoctorIdOf(n), type |-> "Both"]

\* a patients row that existed before the patient_id column was added
LegacyPatientRow == Patient(<<>>, "bob", 41, "M", "777")

\* the end of a table (the generators read the row with the greatest id only)
PatientTableEnding(n) ==
  IF n = 1 THEN <<PatientRow(1)>> ELSE <<PatientRow(n - 1), PatientRow(n)>>
DoctorTableEnding(n) ==
  IF n = 1 THEN <<DoctorRow(1)>> ELSE <<DoctorRow(n - 1), DoctorRow(n)>>

PatientTables ==
  {<<>>, <<LegacyPatientRow>>, <<LegacyPatientRow, LegacyPatientRow>>}
    \cup {PatientTableEnding(n) : n \in Suffixes}
DoctorTables == {<<>>} \cup {DoctorTableEnding(n) : n \in Suffixes}

IdInputs ==
  [fn : {"get_next_patient_id"}, table : PatientTables]
    \cup [fn : {"get_next_doctor_id"}, table : DoctorTables]

call_get_next_patient_id ==
  /\ fin.fn = "get_next_patient_id"
  /\ ~fout.returned
  /\ fout' = [returned |-> TRUE, value |-> get_next_patient_id(fin.table)]
  /\ UNCHANGED <<fin, nonfunvars>>

call_get_next_doctor_id ==
  /\ fin.fn = "get_next_doctor_id"
  /\ ~fout.returned
  /\ fout' = [returned |-> TRUE, value |-> get_next_doctor_id(fin.table)]
  /\ UNCHANGED <<fin, nonfunvars>>

\* ---- the frame decoder of the listener (ServerThread.run) ----
STX == 2
ETX == 3
LetterA == 65
InvalidUtf8 == 255
MaxBuf == 4

\* text is a sequence of one-character strings
\* ord() of the characters used in the messages
Ord ==
  ("\\x02" :> STX) @@ ("\\x03" :> ETX) @@
  ("\n" :> 10) @@
  ("\r" :> 13) @@
  ("&" :> 38) @@
  ("-" :> 45) @@
  ("." :> 46) @@
  ("/" :> 47) @@
  ("0" :> 48) @@
  ("1" :> 49) @@
  ("2" :> 50) @@
  ("3" :> 51) @@
  ("4" :> 52) @@
  ("5" :> 53) @@
  ("6" :> 54) @@
  ("9" :> 57) @@
  ("A" :> 65) @@
  ("F" :> 70) @@
  ("G" :> 71) @@
  ("H" :> 72) @@
  ("I" :> 73) @@
  ("L" :> 76) @@
  ("N" :> 78) @@
  ("O" :> 79) @@
  ("P" :> 80) @@
  ("R" :> 82) @@
  ("S" :> 83) @@
  ("\\" :> 92) @@
  ("^" :> 94) @@
  ("a" :> 97) @@
  ("c" :> 99) @@
  ("d" :> 100) @@
  ("e" :> 101) @@
  ("g" :> 103) @@
  ("i" :> 105) @@
  ("l" :> 108) @@
  ("m" :> 109) @@
  ("o" :> 111) @@
  ("r" :> 114) @@
  ("s" :> 115) @@
  ("t" :> 116) @@
  ("u" :> 117) @@
  ("|" :> 124)

Chr(b) == CHOOSE c \in DOMAIN Ord : Ord[c] = b

\* data.find(byte): the 0-based index of the first occurrence, or -1
find(data, byte) ==
  IF \E i \in DOMAIN data : data[i] = byte
  THEN (CHOOSE i \in DOMAIN data :
          data[i] = byte /\ \A j \in 1..(i - 1) : data[j] # byte) - 1
  ELSE -1

\* data[i:j] with 0 <= i, 0 <= j: empty when j <= i
slice(data, i, j) == SubSeq(data, i + 1, j)

\* bytes.decode('utf-8'): 0xFF occurs in no UTF-8 encoding
valid_utf8(bytes) == \A i \in DOMAIN bytes : bytes[i] # InvalidUtf8
decode_utf8(bytes) == [i \in DOMAIN bytes |-> Chr(bytes[i])]

\* variant: a buffer without end marker is taken up to its end
decode_frame_to_end(data) ==
  IF data = <<>> THEN [kind |-> "empty"]
  ELSE LET stx == find(data, STX)
           etx == IF find(data, ETX) = -1 THEN Len(data) ELSE find(data, ETX)
       IN IF stx # -1
          THEN IF valid_utf8(slice(data, stx + 1, etx))
               THEN [kind |-> "emit", payload |-> decode_utf8(slice(data, stx + 1, etx))]
               ELSE [kind |-> "error"]
          ELSE [kind |-> "malformed"]

\* what the listener does with the bytes of one read
decode_frame(data) ==
  IF data = <<>> THEN [kind |-> "empty"]
  ELSE LET stx == find(data, STX)
           etx == find(data, ETX)
       IN IF stx # -1 /\ etx # -1
          THEN IF valid_utf8(slice(data, stx + 1, etx))
               THEN [kind |-> "emit", payload |-> decode_utf8(slice(data, stx + 1, etx))]
               ELSE [kind |-> "error"]
          ELSE [kind |-> "malformed"]

FrameBytes == {STX, ETX, LetterA, InvalidUtf8}
Buffers == UNION {[1..n -> FrameBytes] : n \in 0..MaxBuf}
FrameInputs == [fn : {"decode_frame"}, data : Buffers]

call_decode_frame ==
  /\ fin.fn = "decode_frame"
  /\ ~fout.returned
  /\ fout' = [returned |-> TRUE, value |-> decode_frame(fin.data)]
  /\ UNCHANGED <<fin, nonfunvars>>

\* ---- astm_parser.parse_astm ----
\* text is a sequence of one-character strings; a dict is a function whose
\* domain is the set of its keys
CR == "\r"
Whitespace == {" ", "\t", "\n", CR}

RECURSIVE lstrip(_)
lstrip(s) == IF s # <<>> /\ s[1] \in Whitespace THEN lstrip(Tail(s)) ELSE s

RECURSIVE rstrip(_)
rstrip(s) ==
  IF s # <<>> /\ s[Len(s)] \in Whitespace THEN rstrip(SubSeq(s, 1, Len(s) - 1)) ELSE s

strip(s) == rstrip(lstrip(s))

\* s.split(sep): always at least one piece
RECURSIVE split(_, _)
split(s, sep) ==
  IF \E i \in DOMAIN s : s[i] = sep
  THEN LET i == CHOOSE i \in DOMAIN s : s[i] = sep /\ \A j \in 1..(i - 1) : s[j] # sep
       IN <<SubSeq(s, 1, i - 1)>> \o split(SubSeq(s, i + 1, Len(s)), sep)
  ELSE <<s>>

\* fields[k], counted from 0
at(fields, k) == fields[k + 1]

\* variant: a key already present keeps its value
set_item_keep_first(data, key, value) == data @@ (key :> value)

\* data[key] = value
set_item(data, key, value) == (key :> value) @@ data

\* the rules of an O segment
order_fields(data, fields) ==
  LET d1 == IF Len(fields) > 2 THEN set_item(data, "sample_id", at(fields, 2)) ELSE data
  IN IF Len(fields) > 4
     THEN LET components == split(at(fields, 4), "^")
          IN IF Len(components) > 3
             THEN set_item(d1, "test_name", at(components, 3))
             ELSE d1
     ELSE d1

\* variant: the status code is taken from field[6]
result_fields_status_from_6(data, fields) ==
  LET d1 == IF Len(fields) > 3 THEN set_item(data, "value", at(fields, 3)) ELSE data
      d2 == IF Len(fields) > 4 THEN set_item(d1, "unit", at(fields, 4)) ELSE d1
      d3 == IF Len(fields) > 5 THEN set_item(d2, "ref_range", at(fields, 5)) ELSE d2
      d4 == IF Len(fields) > 6 THEN set_item(d3, "status", at(fields, 6)) ELSE d3
  IN IF Len(fields) > 11 THEN set_item(d4, "datetime", at(fields, 11)) ELSE d4

\* the rules of an R segment
result_fields(data, fields) ==
  LET d1 == IF Len(fields) > 3 THEN set_item(data, "value", at(fields, 3)) ELSE data
      d2 == IF Len(fields) > 4 THEN set_item(d1, "unit", at(fields, 4)) ELSE d1
      d3 == IF Len(fields) > 5 THEN set_item(d2, "ref_range", at(fields, 5)) ELSE d2
      d4 == IF Len(fields) > 8 THEN set_item(d3, "status", at(fields, 8)) ELSE d3
  IN IF Len(fields) > 11 THEN set_item(d4, "datetime", at(fields, 11)) ELSE d4

\* the body of the loop over the segments
parse_segment(data, segment) ==
  LET fields == split(segment, "|")
      segment_type == at(fields, 0)
  IN IF segment_type = <<"O">> THEN order_fields(data, fields)
     ELSE IF segment_type = <<"R">> THEN result_fields(data, fields)
     ELSE data

RECURSIVE parse_segments(_, _)
parse_segments(data, segments) ==
  IF segments = <<>> THEN data
  ELSE parse_segments(parse_segment(data, Head(segments)), Tail(segments))

parse_astm(astm_string) == parse_segments(<<>>, split(strip(astm_string), CR))

\* ---- messages given to parse_astm ----
MaxSegs == 2
MaxFields == 12

\* a segment is described by its tag, its number of fields (tag included) and
\* the number of components of its field[4]
SegmentShapes ==
  [tag : {"O"}, nf : 1..6, nc : {4}] \cup [tag : {"O"}, nf : {5, 6}, nc : {3}]
    \cup [tag : {"R"}, nf : 1..MaxFields, nc : {4}]
    \cup [tag : {"H"}, nf : {1, MaxFields}, nc : {4}]

\* every field holds a text of its own: the mark of the segment, then the mark
\* of the field or of the component
SegMark == <<"a", "b", "c", "d">>
FieldMark == <<"1", "2", "3", "4", "5", "6", "7", "8", "9", "A", "B", "C", "D", "E">>
CompMark == <<"w", "x", "y", "z">>

FieldText(k, i) == <<SegMark[k], FieldMark[i]>>
CompText(k, j) == <<SegMark[k], CompMark[j + 1]>>

RECURSIVE join(_, _)
join(pieces, sep) ==
  IF Len(pieces) = 0 THEN <<>>
  ELSE IF Len(pieces) = 1 THEN pieces[1]
  ELSE pieces[1] \o <<sep>> \o join(Tail(pieces), sep)

Field4Text(k, shape) == join([j \in 1..shape.nc |-> CompText(k, j - 1)], "^")

\* the text of the k-th segment of a message
SegmentText(k, shape) ==
  join([n \in 1..shape.nf |->
          IF n = 1 THEN <<shape.tag>>
          ELSE IF n = 5 THEN Field4Text(k, shape)
          ELSE FieldText(k, n - 1)], "|")

\* the text of the segments numbered ks, one per line
MessageText(segs, ks) == join([n \in 1..Len(ks) |-> SegmentText(ks[n], segs[ks[n]])], CR)

Messages == UNION {[1..n -> SegmentShapes] : n \in 0..MaxSegs}

\* the segments are sent one per line, the last line ended or not
ParseInputs ==
  {[fn |-> "parse_astm", segs |-> segs,
    astm_string |-> MessageText(segs, [n \in 1..Len(segs) |-> n]) \o trailer] :
      segs \in Messages, trailer \in {<<>>, <<CR>>}}

call_parse_astm ==
  /\ fin.fn = "parse_astm"
  /\ ~fout.returned
  /\ fout' = [returned |-> TRUE, value |-> parse_astm(fin.astm_string)]
  /\ UNCHANGED <<fin, nonfunvars>>

FunInputs == IdInputs \cup FrameInputs \cup ParseInputs

InitFun ==
  /\ results = <<>>
  /\ patients = <<>>
  /\ doctors = <<>>
  /\ sessions = [s \in 1..NumSessions |-> NoSession]
  /\ last = NoCall
  /\ applied = <<>>
  /\ nops = 0
  /\ fin \in FunInputs
  /\ fout = NoOutput
  /\ listener = NoListener
  /\ gui = "ready"
  /\ conns = <<>>
  /\ inbox = <<>>
  /\ origin = <<>>

NextFun ==
  \/ call_get_next_patient_id
  \/ call_get_next_doctor_id
  \/ call_decode_frame
  \/ call_parse_astm

SpecFun == InitFun /\ [][NextFun]_vars

\* ---- the payloads sent ----
encode(text) == [i \in DOMAIN text |-> Ord[text[i]]]

\* the message of the simulator: segments H, P, O, R, L, each ended by a
\* carriage return, with one value of the clock as timestamp
ExamplePayload ==
  <<"H", "|", "\\", "^", "&", "|", "|", "|", "L", "I", "S", "-", "S", "i",
    "m", "u", "l", "a", "t", "o", "r", "|", "|", "|", "|", "|", "|", "|",
    "L", "I", "S", "|", "|", "P", "|", "1", "\r", "P", "|", "1", "|", "1",
    "2", "3", "4", "5", "\r", "O", "|", "1", "|", "S", "0", "0", "1", "|",
    "|", "^", "^", "^", "G", "l", "u", "c", "o", "s", "e", "|", "R", "\r",
    "R", "|", "1", "|", "^", "^", "^", "G", "l", "u", "c", "o", "s", "e",
    "|", "1", "0", ".", "5", "|", "m", "g", "/", "d", "L", "|", "4", ".",
    "0", "-", "6", ".", "0", "|", "N", "|", "|", "F", "|", "|", "|", "2",
    "0", "2", "4", "0", "1", "0", "1", "0", "9", "3", "0", "0", "0", "\r",
    "L", "|", "1", "|", "N", "\r">>

\* an O and an R segment with few fields: no test name, no unit, no timestamp
ShortPayload == <<"O", "|", "1", "|", "S", "1", "\r", "R", "|", "1", "|", "|", "5">>

\* an O and an R segment without any field
BarePayload == <<"O", "\r", "R">>

\* an R segment whose field[11] is present and empty
NoTimePayload ==
  <<"O", "|", "1", "|", "S", "1", "\r", "R", "|", "1", "|", "|", "5", "|",
    "|", "|", "|", "|", "F", "|", "|", "|">>

Payloads == {ExamplePayload, ShortPayload, BarePayload, NoTimePayload}

\* a message with H, P and L segments only
HPLPayload ==
  <<"H", "|", "\\", "^", "&", "\r", "P", "|", "1", "\r", "L", "|", "1", "|", "N">>

\* a frame with nothing between the markers
EmptyPayload == <<>>

\* the messages a client of the stream specification frames
StreamPayloads == Payloads \cup {HPLPayload, EmptyPayload}

\* f"\x02{msg}\x03\r\n"
frame(text) == <<STX>> \o encode(text) \o <<ETX, Ord[CR], Ord["\n"]>>

\* what a client sends before it closes: nothing, a message without end
\* marker, a frame whose bytes are no text, or a framed message
ClientBuffers ==
  {<<>>, <<STX, LetterA>>, <<STX, InvalidUtf8, ETX>>}
    \cup {frame(text) : text \in Payloads}

\* a framed message reaches the listener in two parts: the first read ends
\* after the first byte of the payload, before the end marker or after it
SplitPoints(buf) == {2, Len(buf) - 3, Len(buf) - 2}
FirstPart(buf, k) == SubSeq(buf, 1, k)
LaterPart(buf, k) == SubSeq(buf, k + 1, Len(buf))
SplitBuffers == {frame(ShortPayload)}

\* what a client sends in one piece in the stream specification: a framed
\* message, or the end of a frame without its start
StreamBuffers == {<<LetterA, ETX>>} \cup {frame(text) : text \in StreamPayloads}

\* everything one conn.recv(4096) can return
ReadBuffers ==
  ClientBuffers \cup StreamBuffers
    \cup UNION {{FirstPart(buf, k) : k \in SplitPoints(buf)} : buf \in SplitBuffers}

\* the decoder applied to each buffer that can be read
decoded == [data \in ReadBuffers |-> decode_frame(data)]

\* ---- QDateTime.fromString(s, 'yyyyMMddhhmmss') ----
IsDigit(c) == \E i \in 1..10 : Digits[i] = c
Number(s, i, j) == ParseInt(SubSeq(s, i, j))
\* the string is a date and a time (the length of the month is not checked)
valid_timestamp(s) ==
  /\ Len(s) = 14
  /\ \A i \in 1..14 : IsDigit(s[i])
  /\ Number(s, 1, 4) >= 1
  /\ Number(s, 5, 6) \in 1..12
  /\ Number(s, 7, 8) \in 1..31
  /\ Number(s, 9, 10) < 24
  /\ Number(s, 11, 12) < 60
  /\ Number(s, 13, 14) < 60

\* parsed_data.get(key, '')
get(data, key) == IF key \in DOMAIN data THEN data[key] ELSE <<>>

\* variant: the status code F of the instrument makes the Result Finalized
ingested_row_status_from_code(parsed_data) ==
  [NewResult EXCEPT !.sample_id = get(parsed_data, "sample_id"),
                    !.test_name = get(parsed_data, "test_name"),
                    !.test_result = get(parsed_data, "value"),
                    !.unit = get(parsed_data, "unit"),
                    !.reference_range = get(parsed_data, "ref_range"),
                    !.date_time = IF "datetime" \in DOMAIN parsed_data
                                  THEN parsed_data["datetime"] ELSE Now,
                    !.status = IF get(parsed_data, "status") = <<"F">>
                               THEN "Finalized" ELSE "Pending"]

\* the row insert_result_details stores for a parsed message
ingested_row(parsed_data) ==
  [NewResult EXCEPT !.sample_id = get(parsed_data, "sample_id"),
                    !.test_name = get(parsed_data, "test_name"),
                    !.test_result = get(parsed_data, "value"),
                    !.unit = get(parsed_data, "unit"),
                    !.reference_range = get(parsed_data, "ref_range"),
                    !.date_time = IF "datetime" \in DOMAIN parsed_data
                                  THEN parsed_data["datetime"] ELSE Now]

\* variant: a message without any field is stored as a Result of empty texts
ingest_outcome_saves_empty(data) ==
  LET parsed_data == parse_astm(data)
  IN IF "datetime" \in DOMAIN parsed_data /\ ~valid_timestamp(parsed_data["datetime"])
     THEN "error"
     ELSE "saved"

\* what handle_astm_data does with a payload: nothing when the parse is
\* empty, an exception when the timestamp is no date (toPyDateTime of an
\* invalid QDateTime raises ValueError), otherwise one row inserted
ingest_outcome(data) ==
  LET parsed_data == parse_astm(data)
  IN IF parsed_data = <<>> THEN "ignored"
     ELSE IF "datetime" \in DOMAIN parsed_data /\ ~valid_timestamp(parsed_data["datetime"])
          THEN "error"
          ELSE "saved"

\* the payloads the decoder emits for the buffers that can be read, and what
\* handle_astm_data does with each
Emitted == {decoded[data].payload : data \in {b \in ReadBuffers : decoded[b].kind = "emit"}}

ingested ==
  [data \in Emitted |->
     [outcome |-> ingest_outcome(data),
      row |-> IF ingest_outcome(data) = "saved"
              THEN ingested_row(parse_astm(data)) ELSE NewResult]]

\* ---- the listener thread, the GUI thread and the clients ----
MaxConns == 2

\* a connection made by stop() to wake the listener: closed without data
WakeConn == [data |-> <<>>, sent |-> TRUE, aborted |-> FALSE, state |-> "pending",
             client |-> FALSE, outcome |-> "none", logged |-> "", order |-> 0,
             rest |-> <<>>]

\* order: the rank of the connection among those read and decoded so far;
\* aborted: the peer has reset the connection, a read of it raises OSError;
\* data: the bytes that have reached the socket once the client has sent;
\* rest: the bytes the client sends after them
ClientConn(buf) == [data |-> buf, sent |-> FALSE, aborted |-> FALSE, state |-> "pending",
                    client |-> TRUE, outcome |-> "none", logged |-> "", order |-> 0,
                    rest |-> <<>>]

\* variant: the listener reads until the peer has sent everything
recv_until_closed(conn) == conn.data \o conn.rest

\* data = conn.recv(4096): one read, of the bytes that have arrived
recv(conn) == conn.data

\* conn.recv(4096) and the decoding of what it returned
read_and_decode(conn) ==
  IF conn.aborted THEN [kind |-> "error"] ELSE decoded[recv(conn)]

\* variant: an exception raised in the loop body leaves the loop
after_error_leaves_loop(kind) == IF kind = "error" THEN "finally" ELSE "loop"

\* except Exception as e (inside the loop): the loop goes on
after_error(kind) == "loop"

Pending == {i \in DOMAIN conns : conns[i].state = "pending"}
FirstPending == CHOOSE i \in Pending : \A j \in Pending : i <= j

\* variant: the loop never looks at the flag
loop_condition_ignores_flag(running) == TRUE

\* while self.running:
loop_condition(running) == running

\* variant: a connection is accepted while the previous one is being read
can_accept_while_reading(pc) == pc \in {"accept", "recv"}

\* the thread is inside server_socket.accept()
can_accept(pc) == pc = "accept"

\* variant: the event loop delivers the most recent signal first
next_event_newest(queue) == Len(queue)

\* the queued signals are delivered to the slot in the order of emission
next_event(queue) == 1

\* MainWindow.start_communication: server_thread.start(), for the first time
start_communication ==
  /\ gui = "ready"
  /\ listener.pc = "idle"
  /\ listener' = [listener EXCEPT !.pc = "start"]
  /\ UNCHANGED <<gui, conns, inbox, origin, dbvars, funvars>>

\* ServerThread.run, its first statements: load_config(); self.running = True
run_begin ==
  /\ listener.pc = "start"
  /\ listener' = [listener EXCEPT !.pc = "socket", !.running = TRUE]
  /\ UNCHANGED <<gui, conns, inbox, origin, dbvars, funvars>>

\* self.server_socket = socket.socket(...): an object, not yet listening
run_socket ==
  /\ listener.pc = "socket"
  /\ listener' = [listener EXCEPT !.pc = "bind", !.server_socket = "created"]
  /\ UNCHANGED <<gui, conns, inbox, origin, dbvars, funvars>>

\* bind, listen and the "Server listening" message, up to the loop
run_listen ==
  /\ listener.pc = "bind"
  /\ listener' = [listener EXCEPT !.pc = "loop", !.server_socket = "listening",
                                  !.reported = "listening"]
  /\ UNCHANGED <<gui, conns, inbox, origin, dbvars, funvars>>

\* while self.running: ... settimeout(0.5); accept()
run_loop_enter ==
  /\ listener.pc = "loop"
  /\ loop_condition(listener.running)
  /\ listener' = [listener EXCEPT !.pc = "accept"]
  /\ UNCHANGED <<gui, conns, inbox, origin, dbvars, funvars>>

\* accept() returns the connection that has waited longest
run_accept ==
  /\ can_accept(listener.pc)
  /\ Pending # {}
  /\ listener' = [listener EXCEPT !.pc = "recv", !.conn = FirstPending]
  /\ conns' = [conns EXCEPT ![FirstPending].state = "accepted"]
  /\ UNCHANGED <<gui, inbox, origin, dbvars, funvars>>

\* except socket.timeout: continue
run_accept_timeout ==
  /\ listener.pc = "accept"
  /\ Pending = {}
  /\ listener' = [listener EXCEPT !.pc = "loop"]
  /\ UNCHANGED <<gui, conns, inbox, origin, dbvars, funvars>>

\* the body of `with conn`: recv returns once the peer has sent or closed,
\* then the payload is emitted or the buffer logged, and the connection closed
run_handle_connection ==
  /\ listener.pc = "recv"
  /\ conns[listener.conn].sent
  /\ \E c \in {listener.conn} : \E out \in {read_and_decode(conns[c])} :
        /\ conns' = [conns EXCEPT ![c].state = "closed",
                                  ![c].order =
                                    1 + Cardinality({i \in DOMAIN conns : conns[i].order > 0}),
                                  ![c].outcome = out.kind,
                                  ![c].logged =
                                    IF out.kind = "malformed" THEN "malformed"
                                    ELSE IF out.kind = "error" /\ listener.running
                                         THEN "error" ELSE ""]
        /\ inbox' = IF out.kind = "emit"
                    THEN Append(inbox, [conn |-> c, data |-> out.payload])
                    ELSE inbox
        /\ listener' = [listener EXCEPT !.pc = after_error(out.kind), !.conn = NULL]
  /\ UNCHANGED <<gui, origin, dbvars, funvars>>

\* the loop is left: finally: server_socket.close(); "Server stopped."
run_finally ==
  /\ \/ listener.pc = "loop" /\ ~loop_condition(listener.running)
     \/ listener.pc = "finally"
  /\ listener' = [listener EXCEPT !.pc = "stopped", !.server_socket = "closed",
                                  !.reported = "stopped"]
  /\ conns' = [i \in DOMAIN conns |->
                 IF conns[i].state = "pending" THEN [conns[i] EXCEPT !.state = "refused"]
                 ELSE conns[i]]
  /\ UNCHANGED <<gui, inbox, origin, dbvars, funvars>>

\* MainWindow.stop_communication -> ServerThread.stop up to self.wait(): the
\* flag is cleared, and the wake-up connection is made when there is a socket
\* object and reaches the listener when that socket listens
stop_communication ==
  /\ gui = "ready"
  /\ listener.pc \notin {"idle", "stopped"}
  /\ listener' = [listener EXCEPT !.running = FALSE,
                                  !.stop_in_loop = listener.pc \in {"loop", "accept", "recv"}]
  /\ conns' = IF listener.server_socket = "listening" THEN Append(conns, WakeConn) ELSE conns
  /\ gui' = "waiting"
  /\ UNCHANGED <<inbox, origin, dbvars, funvars>>

\* self.wait() returns when run() has returned
stop_returns ==
  /\ gui = "waiting"
  /\ listener.pc = "stopped"
  /\ gui' = "ready"
  /\ UNCHANGED <<listener, conns, inbox, origin, dbvars, funvars>>

\* MainWindow.handle_astm_data, run by the event loop of the GUI thread for
\* one emitted payload
handle_astm_data ==
  /\ gui = "ready"
  /\ inbox # <<>>
  /\ \E n \in {next_event(inbox)} : \E e \in {inbox[n]} : \E out \in {ingested[e.data]} :
        /\ inbox' = SubSeq(inbox, 1, n - 1) \o SubSeq(inbox, n + 1, Len(inbox))
        /\ IF out.outcome = "saved"
           THEN /\ results' = Append(results, out.row)
                /\ applied' = Append(applied, <<>>)
                /\ origin' = Append(origin, e.conn)
                /\ last' = [op |-> "insert_result_details", result_id |-> Len(results) + 1,
                            doctor_id |-> NULL, ret |-> "row"]
           ELSE /\ last' = [op |-> "handle_astm_data", result_id |-> NULL,
                            doctor_id |-> NULL, ret |-> out.outcome]
                /\ UNCHANGED <<results, applied, origin>>
  /\ UNCHANGED <<listener, gui, conns, patients, doctors, sessions, nops, funvars>>

\* a client connects to the listening socket
client_connect(buf) ==
  /\ listener.server_socket = "listening"
  /\ Cardinality({i \in DOMAIN conns : conns[i].client}) < MaxConns
  /\ conns' = Append(conns, ClientConn(buf))
  /\ UNCHANGED <<listener, gui, inbox, origin, dbvars, funvars>>

\* the client sends its buffer and closes (sendall, then the end of `with`)
client_send(i) ==
  /\ conns[i].state \in {"pending", "accepted"}
  /\ ~conns[i].sent
  /\ conns' = [conns EXCEPT ![i].sent = TRUE]
  /\ UNCHANGED <<listener, gui, inbox, origin, dbvars, funvars>>

\* the client resets the connection without having sent anything
client_reset(i) ==
  /\ conns[i].state \in {"pending", "accepted"}
  /\ ~conns[i].sent
  /\ conns[i].data = <<>>
  /\ conns' = [conns EXCEPT ![i].sent = TRUE, ![i].aborted = TRUE]
  /\ UNCHANGED <<listener, gui, inbox, origin, dbvars, funvars>>

ListenerThread ==
  \/ run_begin
  \/ run_socket
  \/ run_listen
  \/ run_loop_enter
  \/ run_accept
  \/ run_accept_timeout
  \/ run_handle_connection
  \/ run_finally

ClientSends == \E i \in DOMAIN conns : client_send(i)

NextListener ==
  \/ start_communication
  \/ stop_communication
  \/ stop_returns
  \/ handle_astm_data
  \/ run_begin
  \/ run_socket
  \/ run_listen
  \/ run_loop_enter
  \/ run_accept
  \/ run_accept_timeout
  \/ run_handle_connection
  \/ run_finally
  \/ \E buf \in ClientBuffers : client_connect(buf)
  \/ \E i \in DOMAIN conns : client_send(i)
  \/ \E i \in DOMAIN conns : client_reset(i)

SpecListener == Init /\ [][NextListener]_vars

\* ---- clients whose message reaches the listener in two parts ----
\* a client connects; its message will arrive in two parts
client_connect_split(buf, k) ==
  /\ listener.server_socket = "listening"
  /\ Cardinality({i \in DOMAIN conns : conns[i].client}) < MaxConns
  /\ conns' = Append(conns, [ClientConn(FirstPart(buf, k)) EXCEPT
                               !.rest = LaterPart(buf, k)])
  /\ UNCHANGED <<listener, gui, inbox, origin, dbvars, funvars>>

\* the later part arrives while the connection has not been read yet; once
\* the listener has read and closed the connection the later bytes are lost
client_send_rest(i) ==
  /\ conns[i].state \in {"pending", "accepted"}
  /\ conns[i].sent
  /\ conns[i].rest # <<>>
  /\ conns' = [conns EXCEPT ![i].data = @ \o conns[i].rest, ![i].rest = <<>>]
  /\ UNCHANGED <<listener, gui, inbox, origin, dbvars, funvars>>

\* the listener, the GUI thread and clients that send framed messages whole
\* or in two parts
NextStream ==
  \/ start_communication
  \/ stop_communication
  \/ stop_returns
  \/ handle_astm_data
  \/ run_begin
  \/ run_socket
  \/ run_listen
  \/ run_loop_enter
  \/ run_accept
  \/ run_accept_timeout
  \/ run_handle_connection
  \/ run_finally
  \/ \E buf \in StreamBuffers : client_connect(buf)
  \/ \E buf \in SplitBuffers : \E k \in SplitPoints(buf) : client_connect_split(buf, k)
  \/ \E i \in DOMAIN conns : client_send(i)
  \/ \E i \in DOMAIN conns : client_send_rest(i)

SpecStream == Init /\ [][NextStream]_vars

\* the listener thread is scheduled, and a client that has connected sends
\* or closes
\* the event loop of the GUI thread delivers every queued signal unless the
\* thread is blocked (handle_astm_data is then disabled)
SpecListenerFair ==
  /\ SpecListener
  /\ WF_vars(ListenerThread)
  /\ WF_vars(ClientSends)
  /\ WF_vars(handle_astm_data)

\* ---- the searches of db.py ----
MaxRows == 2

SecondsPerDay == 86400

\* a timestamp: second s of day d
datetime(d, s) == d * SecondsPerDay + s

\* a date bound to a DateTime column: the first instant of the day
midnight(d) == datetime(d, 0)

\* date + datetime.timedelta(days=1)
add_one_day(d) == d + 1

\* SQLite's LIKE compares ASCII letters without regard to case
Lowercase ==
  ("A" :> "a") @@ ("B" :> "b") @@ ("G" :> "g") @@ ("N" :> "n") @@
  ("P" :> "p") @@ ("S" :> "s")

lower(c) == IF c \in DOMAIN Lowercase THEN Lowercase[c] ELSE c

\* text LIKE pattern: % is any run of characters, _ any one character
RECURSIVE like(_, _)
like(text, pattern) ==
  IF pattern = <<>> THEN text = <<>>
  ELSE IF Head(pattern) = "%"
       THEN like(text, Tail(pattern)) \/ (text # <<>> /\ like(Tail(text), pattern))
  ELSE IF text = <<>> THEN FALSE
  ELSE IF Head(pattern) = "_" THEN like(Tail(text), Tail(pattern))
  ELSE lower(Head(text)) = lower(Head(pattern)) /\ like(Tail(text), Tail(pattern))

\* column.like(f"%{value}%")
like_contains(column, value) == like(column, <<"%">> \o value \o <<"%">>)

\* the defaults of the parameters of search_results; an empty text is as
\* good as None (`if sample_id:`)
NoResultFilters ==
  [sample_id |-> <<>>, patient_id |-> <<>>, patient_name |-> <<>>, test_name |-> <<>>,
   from_date |-> NULL, to_date |-> NULL, without_patient_info |-> FALSE, status |-> ""]

\* the second definition of search_results (it replaces the one of line 173):
\* the ids of the Results returned
search_results(rs, ps, f) ==
  LET joined == f.patient_id # <<>> \/ f.patient_name # <<>>
      \* query.join(Patient): the Results that have a Patient
      has_patient(r) == rs[r].patient_id \in DOMAIN ps
      where(r) ==
        /\ f.sample_id # <<>> => like_contains(rs[r].sample_id, f.sample_id)
        /\ joined =>
             /\ has_patient(r)
             /\ f.patient_id # <<>> =>
                  like_contains(ps[rs[r].patient_id].patient_id, f.patient_id)
             /\ f.patient_name # <<>> =>
                  like_contains(ps[rs[r].patient_id].name, f.patient_name)
        /\ (~joined /\ f.without_patient_info) => rs[r].patient_id = NULL
        /\ f.test_name # <<>> => like_contains(rs[r].test_name, f.test_name)
        /\ f.from_date # NULL => rs[r].date_time >= midnight(f.from_date)
        /\ f.to_date # NULL => rs[r].date_time <= midnight(add_one_day(f.to_date))
        /\ (f.status # "" /\ f.status # "All") => rs[r].status = f.status
  IN {r \in DOMAIN rs : where(r)}

NoPatientFilters ==
  [name |-> <<>>, phone_number |-> <<>>, sample_id |-> <<>>, patient_id |-> <<>>]

\* SELECT DISTINCT: the rows without their repetitions, in their order
RECURSIVE distinct(_)
distinct(rows) ==
  IF rows = <<>> THEN <<>>
  ELSE LET before == distinct(SubSeq(rows, 1, Len(rows) - 1))
           row == rows[Len(rows)]
       IN IF \E k \in DOMAIN before : before[k] = row THEN before
          ELSE Append(before, row)

\* search_patients: the ids of the Patients returned, one entry per row of the
\* query (a join yields one row per pair of a Patient and a Result of it)
search_patients(rs, ps, f) ==
  LET np == Len(ps)
      nr == Len(rs)
      where(p) ==
        /\ f.name # <<>> => like_contains(ps[p].name, f.name)
        /\ f.phone_number # <<>> => like_contains(ps[p].phone_number, f.phone_number)
        /\ f.patient_id # <<>> => like_contains(ps[p].patient_id, f.patient_id)
      pairs == [k \in 1..(np * nr) |-> <<((k - 1) \div nr) + 1, ((k - 1) % nr) + 1>>]
      on(pair) ==
        /\ rs[pair[2]].patient_id = pair[1]
        /\ like_contains(rs[pair[2]].sample_id, f.sample_id)
        /\ where(pair[1])
      joined == SelectSeq(pairs, on)
      plain == SelectSeq([p \in 1..np |-> p], where)
  IN distinct(IF f.sample_id # <<>>
              THEN [k \in DOMAIN joined |-> joined[k][1]]
              ELSE plain)

\* ---- the stores searched and the filters supplied ----
\* two Patients
SearchPatients ==
  << Patient(PatientIdOf(1), <<"A", "n", "n">>, 30, "F", <<"5", "5", "5">>),
     Patient(PatientIdOf(2), <<"B", "o", "b">>, 41, "M", <<"7", "7", "7">>) >>

\* the last second of day 1 and the first second of day 2
SearchTimes == {datetime(1, SecondsPerDay - 1), datetime(2, 0)}

SearchRows ==
  {[NewResult EXCEPT !.sample_id = sample, !.test_name = kind[1], !.status = kind[2],
                     !.date_time = time, !.patient_id = patient] :
     sample \in {<<"S", "1">>, <<"s", "2">>},
     kind \in {<< <<"G", "l", "u">>, "Pending" >>, << <<"N", "a">>, "Verified" >>},
     time \in SearchTimes,
     patient \in {NULL} \cup DOMAIN SearchPatients}

\* the order of a search does not depend on the order of the rows: only the
\* tables whose rows are in this order are searched
RowOrder(row) ==
  row.date_time * 16 + row.patient_id * 4
    + (IF row.status = "Pending" THEN 0 ELSE 2)
    + (IF row.sample_id[1] = "S" THEN 0 ELSE 1)

ResultTables ==
  {rs \in UNION {[1..n -> SearchRows] : n \in 0..MaxRows} :
     \A i \in 1..(Len(rs) - 1) : RowOrder(rs[i]) <= RowOrder(rs[i + 1])}

ResultFilters ==
  [sample_id : {<<>>, <<"s", "1">>}, patient_id : {<<>>, <<"2">>},
   patient_name : {<<>>, <<"a", "n">>}, test_name : {<<>>, <<"G", "l", "u">>},
   from_date : {NULL, 2}, to_date : {NULL, 1}, without_patient_info : BOOLEAN,
   status : {"", "All", "Verified"}]

PatientFilters ==
  [name : {<<>>, <<"a", "n">>}, phone_number : {<<>>, <<"5">>},
   sample_id : {<<>>, <<"s", "1">>}, patient_id : {<<>>, <<"2">>}]

\* a store to search
SearchInputs ==
  {[fn |-> "search", results |-> rs, patients |-> SearchPatients] : rs \in ResultTables}

call_search_results(f) ==
  /\ fin.fn = "search"
  /\ ~fout.returned
  /\ fout' = [returned |-> TRUE, fn |-> "search_results", filters |-> f,
              value |-> search_results(fin.results, fin.patients, f)]
  /\ UNCHANGED <<fin, nonfunvars>>

call_search_patients(f) ==
  /\ fin.fn = "search"
  /\ ~fout.returned
  /\ fout' = [returned |-> TRUE, fn |-> "search_patients", filters |-> f,
              value |-> search_patients(fin.results, fin.patients, f)]
  /\ UNCHANGED <<fin, nonfunvars>>

InitSearch ==
  /\ results = <<>>
  /\ patients = <<>>
  /\ doctors = <<>>
  /\ sessions = [s \in 1..NumSessions |-> NoSession]
  /\ last = NoCall
  /\ applied = <<>>
  /\ nops = 0
  /\ fin \in SearchInputs
  /\ fout = NoOutput
  /\ listener = NoListener
  /\ gui = "ready"
  /\ conns = <<>>
  /\ inbox = <<>>
  /\ origin = <<>>

NextSearch ==
  \/ \E f \in ResultFilters : call_search_results(f)
  \/ \E f \in PatientFilters : call_search_patients(f)

SpecSearch == InitSearch /\ [][NextSearch]_vars

\* ---- the reports listing (reports.py) ----
\* variant: the reports view searches the Results of every status
reports_filters_all_statuses(form) ==
  [sample_id |-> form.sample_id, patient_id |-> form.patient_id,
   patient_name |-> form.patient_name, test_name |-> form.test_name,
   from_date |-> form.from_date, to_date |-> form.to_date,
   without_patient_info |-> FALSE, status |-> "All"]

\* the arguments ReportsViewWidget.perform_search passes to search_results
reports_filters(form) ==
  [sample_id |-> form.sample_id, patient_id |-> form.patient_id,
   patient_name |-> form.patient_name, test_name |-> form.test_name,
   from_date |-> form.from_date, to_date |-> form.to_date,
   without_patient_info |-> FALSE, status |-> "Finalized"]

\* what the search form of the reports view holds: four texts and two dates
ReportForms ==
  [sample_id : {<<>>, <<"s", "1">>}, patient_id : {<<>>},
   patient_name : {<<>>, <<"a", "n">>}, test_name : {<<>>},
   from_date : {1, 2}, to_date : {1, 2}]

ReportRows ==
  {[NewResult EXCEPT !.sample_id = <<"S", "1">>, !.test_name = <<"G", "l", "u">>,
                     !.status = status, !.date_time = time, !.patient_id = patient] :
     status \in {"Pending", "Verified", "Finalized"},
     time \in SearchTimes,
     patient \in {NULL, 1}}

ReportTables == UNION {[1..n -> ReportRows] : n \in 0..MaxRows}

ReportInputs ==
  {[fn |-> "reports", results |-> rs, patients |-> SearchPatients] : rs \in ReportTables}

\* ReportsViewWidget.perform_search: the listing is what search_results returns
ReportsViewWidget_perform_search(form) ==
  /\ fin.fn = "reports"
  /\ ~fout.returned
  /\ fout' = [returned |-> TRUE, fn |-> "perform_search", filters |-> reports_filters(form),
              value |-> search_results(fin.results, fin.patients, reports_filters(form))]
  /\ UNCHANGED <<fin, nonfunvars>>

InitReports ==
  /\ results = <<>>
  /\ patients = <<>>
  /\ doctors = <<>>
  /\ sessions = [s \in 1..NumSessions |-> NoSession]
  /\ last = NoCall
  /\ applied = <<>>
  /\ nops = 0
  /\ fin \in ReportInputs
  /\ fout = NoOutput
  /\ listener = NoListener
  /\ gui = "ready"
  /\ conns = <<>>
  /\ inbox = <<>>
  /\ origin = <<>>

NextReports == \E form \in ReportForms : ReportsViewWidget_perform_search(form)

SpecReports == InitReports /\ [][NextReports]_vars

\* ---- properties ----
\* ======================= properties of the lifecycle =======================
Row(r) == results[r]
Existing == DOMAIN results
VerifyCapable(d) == doctors[d].type \in {"Verification", "Both"}
FinalizeCapable(d) == doctors[d].type \in {"Finalization", "Both"}

\* C1: every Result whose finalized_by is set has status Finalized.
C1_FinalizedByImpliesFinalized ==
  \A r \in Existing :
    Row(r).finalized_by_doctor_id # NULL => Row(r).status = "Finalized"

C3_FinalizedHasVerifier ==
  \A r \in Existing :
    Row(r).status = "Finalized" => Row(r).verified_by_doctor_id # NULL

\* a Result finalized straight from Pending: its only call is one finalize
C3_Witness ==
  \E r \in Existing :
    /\ Len(applied[r]) = 1
    /\ applied[r][1][1] = "finalize"
    /\ Row(r).status = "Finalized"
    /\ Row(r).verified_by_doctor_id = applied[r][1][2]

\* C4: finalize from Pending sets verified_by, finalized_by = d and status
\* Finalized; finalize from Verified sets finalized_by = d and status Finalized
\* and leaves verified_by unchanged.
C4_FinalizeEffect ==
  [][\A r \in Existing :
       (last'.op = "finalize" /\ last'.result_id = r) =>
         /\ results'[r].status = "Finalized"
         /\ results'[r].finalized_by_doctor_id = last'.doctor_id
         /\ Row(r).status = "Pending" =>
              results'[r].verified_by_doctor_id = last'.doctor_id
         /\ Row(r).status = "Verified" =>
              results'[r].verified_by_doctor_id = Row(r).verified_by_doctor_id]_vars

\* a finalize of a Verified Result by another doctor than its verifier
C4_Witness ==
  \E r \in Existing :
    /\ last.op = "finalize" /\ last.result_id = r
    /\ applied[r][1][1] = "verify"
    /\ Len(applied[r]) = 2
    /\ Row(r).verified_by_doctor_id = applied[r][1][2]
    /\ Row(r).verified_by_doctor_id # Row(r).finalized_by_doctor_id

\* C5: verify on an existing Result sets verified_by = d and status Verified
\* whatever the status was, overwriting the previous verifier.
C5_VerifyEffect ==
  (last.op = "verify" /\ last.result_id \in Existing) =>
    /\ last.ret = "row"
    /\ Row(last.result_id).status = "Verified"
    /\ Row(last.result_id).verified_by_doctor_id = last.doctor_id

\* a verify of a Finalized Result that replaced the verifier the finalize recorded
C5_Witness ==
  \E r \in Existing :
    /\ last.op = "verify" /\ last.result_id = r
    /\ Len(applied[r]) = 2
    /\ applied[r][1][1] = "finalize"
    /\ applied[r][1][2] # last.doctor_id
    /\ Row(r).finalized_by_doctor_id = applied[r][1][2]

\* C6: a verify with a doctor not capable of verification, and a finalize with
\* a doctor not capable of finalization, leaves the Result's status,
\* verified_by and finalized_by unchanged.
C6_IneligibleRejected ==
  [][\A r \in Existing :
       (/\ last'.result_id = r
        /\ \/ last'.op = "verify" /\ ~VerifyCapable(last'.doctor_id)
           \/ last'.op = "finalize" /\ ~FinalizeCapable(last'.doctor_id))
       => results'[r] = Row(r)]_vars

\* C7: verify, finalize and create_patient_for_result on a result id that does
\* not exist return None and change no Result, Patient or Doctor.
C7_NotFoundNoMutation ==
  [][(last'.op \in {"verify", "finalize", "create_patient"}
        /\ last'.result_id \notin Existing)
       => /\ last'.ret = "None"
          /\ UNCHANGED <<results, patients, doctors>>]_vars

\* a patient-linking call on a missing id, made while Results exist
C7_Witness ==
  /\ last.op = "create_patient"
  /\ last.result_id \notin Existing
  /\ last.ret = "None"
  /\ results # <<>>
  /\ patients = <<>>

\* ---- serial executions of the calls committed on one Result ----
Lifecycle(row) ==
  <<row.status, row.verified_by_doctor_id, row.finalized_by_doctor_id>>

ApplyCall(row, call) ==
  IF call[1] = "verify" THEN verification_fields(row, call[2])
  ELSE finalization_fields(row, call[2])

RECURSIVE Replay(_)
Replay(calls) ==
  IF calls = <<>> THEN NewResult
  ELSE ApplyCall(Replay(SubSeq(calls, 1, Len(calls) - 1)), calls[Len(calls)])

Orders(calls) ==
  LET n == Len(calls)
      perms == {p \in [1..n -> 1..n] : \A i, j \in 1..n : p[i] = p[j] => i = j}
  IN {[i \in 1..n |-> calls[p[i]]] : p \in perms}

\* C8: the status, verified_by and finalized_by of a Result are those produced
\* by running the verify/finalize calls committed on it one after the other in
\* some order.
C8_Serializable ==
  \A r \in Existing :
    \E o \in Orders(applied[r]) : Lifecycle(Row(r)) = Lifecycle(Replay(o))

FirstPatientId == <<"P", "0", "0", "0", "0", "0", "0", "1">>

\* C9: two patient creations in progress at the same time for two unlinked
\* Results never both hold the computed identifier P0000001.
C9_FirstIdComputedOnce ==
  \A s1, s2 \in SessionIds :
    (/\ s1 # s2
     /\ sessions[s1].result_id # sessions[s2].result_id
     /\ sessions[s1].pc = "patient_commit"
     /\ sessions[s2].pc = "patient_commit")
    => ~(sessions[s1].new_id = FirstPatientId /\ sessions[s2].new_id = FirstPatientId)

C11_SequentialIds ==
  /\ \A n \in DOMAIN patients : patients[n].patient_id = PatientIdOf(n)
  /\ \A n \in DOMAIN doctors : doctors[n].doctor_id = DoctorIdOf(n)

\* a second Patient created after Doctors and Results were created
C11_Witness ==
  /\ last.op = "create_patient"
  /\ last.ret = "row"
  /\ Len(patients) = 2
  /\ patients[2].patient_id = <<"P", "0", "0", "0", "0", "0", "0", "2">>
  /\ Len(doctors) >= 1
  /\ Len(results) = 2

\* n on 7 zero-padded digits; a number of 8 digits is written in full
Rendered(n) ==
  IF n < 10000000 THEN SevenDigits(n) ELSE <<Digits[(n \div 10000000) + 1]>> \o SevenDigits(n)

FirstDoctorId == <<"D", "O", "C", "0", "0", "0", "0", "0", "0", "1">>

\* the generator returns the identifier that follows the one of the most
\* recently created row, for the doctors and for the patients
NextIdFollowsLast ==
  /\ (fout.returned /\ fin.fn = "get_next_patient_id") =>
       \A n \in Suffixes :
         (fin.table # <<>> /\ fin.table[Len(fin.table)].patient_id = PatientIdOf(n))
           => fout.value = <<"P">> \o Rendered(n + 1) /\ fout.value # FirstPatientId
  /\ (fout.returned /\ fin.fn = "get_next_doctor_id") =>
       /\ fin.table = <<>> <=> fout.value = FirstDoctorId
       /\ \A n \in Suffixes :
            (fin.table # <<>> /\ fin.table[Len(fin.table)].doctor_id = DoctorIdOf(n))
              => fout.value = <<"D", "O", "C">> \o Rendered(n + 1)

\* C12 as stated: the first identifier is returned exactly when the table is
\* empty, otherwise the identifier following the one of the last row.
C12_FirstIffNoEntity ==
  /\ NextIdFollowsLast
  /\ (fout.returned /\ fin.fn = "get_next_patient_id") =>
       (fin.table = <<>> <=> fout.value = FirstPatientId)

\* C12 amended: the first patient identifier is returned exactly when the
\* table is empty or its most recently created row holds no patient_id,
\* otherwise the identifier following the one of the last row; the first
\* doctor identifier exactly when there is no Doctor.
C12_FirstIffNoLastId ==
  /\ NextIdFollowsLast
  /\ (fout.returned /\ fin.fn = "get_next_patient_id") =>
       ((fin.table = <<>> \/ fin.table[Len(fin.table)].patient_id = <<>>)
          <=> fout.value = FirstPatientId)

\* the generator applied at a carry: P0000099 is followed by P0000100
C12_Witness ==
  /\ fout.returned
  /\ fin.fn = "get_next_patient_id"
  /\ fin.table # <<>>
  /\ fin.table[Len(fin.table)].patient_id = <<"P", "0", "0", "0", "0", "0", "9", "9">>
  /\ fout.value = <<"P", "0", "0", "0", "0", "1", "0", "0">>

\* the frame of a buffer: positions of the first 0x02 and of the first 0x03
\* after it
FirstStx(data) == CHOOSE i \in DOMAIN data : data[i] = STX /\ \A k \in 1..(i - 1) : data[k] # STX
EtxAfter(data, i) ==
  CHOOSE j \in (i + 1)..Len(data) : data[j] = ETX /\ \A k \in (i + 1)..(j - 1) : data[k] # ETX
Framed(data) ==
  \E i, j \in DOMAIN data : i < j /\ data[i] = STX /\ data[j] = ETX
Between(data) ==
  SubSeq(data, FirstStx(data) + 1, EtxAfter(data, FirstStx(data)) - 1)

\* C13: for every buffer holding a 0x02 and a 0x03 after it, the payload
\* emitted is the text of the bytes strictly between the first 0x02 and the
\* first 0x03 that follows it, also when a 0x03 comes before the first 0x02.
C13_PayloadBetweenMarkers ==
  (/\ fout.returned
   /\ fin.fn = "decode_frame"
   /\ Framed(fin.data)
   /\ valid_utf8(Between(fin.data)))
  => /\ fout.value.kind = "emit"
     /\ fout.value.payload = [i \in DOMAIN Between(fin.data) |-> Chr(Between(fin.data)[i])]

\* ---- what a message supplies, read off its description ----
Keys == {"sample_id", "test_name", "value", "unit", "ref_range", "status", "datetime"}

\* the segment supplies the key: its tag is the one of the key's rule and it
\* has enough fields and components
Supplies(shape, key) ==
  \/ key = "sample_id" /\ shape.tag = "O" /\ shape.nf > 2
  \/ key = "test_name" /\ shape.tag = "O" /\ shape.nf > 4 /\ shape.nc > 3
  \/ key = "value" /\ shape.tag = "R" /\ shape.nf > 3
  \/ key = "unit" /\ shape.tag = "R" /\ shape.nf > 4
  \/ key = "ref_range" /\ shape.tag = "R" /\ shape.nf > 5
  \/ key = "status" /\ shape.tag = "R" /\ shape.nf > 8
  \/ key = "datetime" /\ shape.tag = "R" /\ shape.nf > 11

\* the text the k-th segment supplies for the key
Supplied(k, shape, key) ==
  CASE key = "sample_id" -> FieldText(k, 2)
    [] key = "test_name" -> CompText(k, 3)
    [] key = "value" -> FieldText(k, 3)
    [] key = "unit" -> Field4Text(k, shape)
    [] key = "ref_range" -> FieldText(k, 5)
    [] key = "status" -> FieldText(k, 8)
    [] key = "datetime" -> FieldText(k, 11)

Suppliers(segs, key) == {k \in DOMAIN segs : Supplies(segs[k], key)}

Parsed == fout.returned /\ fin.fn = "parse_astm"

\* C15: the output map holds a key exactly when some segment of the message
\* supplies it under the rule of the key (O: field[2], component[3] of
\* field[4]; R: field[3], [4], [5], [8], [11]), and then holds the text such a
\* segment supplies; it holds no other key.
C15_RulesApplied ==
  Parsed =>
    /\ DOMAIN fout.value \subseteq Keys
    /\ \A key \in Keys :
         /\ key \in DOMAIN fout.value <=> Suppliers(fin.segs, key) # {}
         /\ key \in DOMAIN fout.value =>
              \E k \in Suppliers(fin.segs, key) :
                fout.value[key] = Supplied(k, fin.segs[k], key)

\* an O segment and an R segment with all their fields: every key is present
C15_Witness ==
  /\ Parsed
  /\ DOMAIN fout.value = Keys
  /\ Len(fin.segs) = 2
  /\ fin.segs[1].tag = "O"
  /\ fout.value["test_name"] = <<"a", "z">>
  /\ fout.value["unit"] = <<"b", "w", "^", "b", "x", "^", "b", "y", "^", "b", "z">>
  /\ fout.value["datetime"] = <<"b", "B">>

\* the segments of the message that carry the tag O or R
Recognized(segs) == {k \in DOMAIN segs : segs[k].tag \in {"O", "R"}}

RECURSIVE Ascending(_)
Ascending(ks) ==
  IF ks = {} THEN <<>>
  ELSE LET m == CHOOSE m \in ks : \A k \in ks : k <= m
       IN Append(Ascending(ks \ {m}), m)

Greatest(ks) == CHOOSE m \in ks : \A k \in ks : k <= m

\* C16: the output map is the one of the message with the segments of other
\* tags taken out, and a key supplied by several segments holds the text
\* supplied by the last of them.
C16_LastSegmentWins ==
  Parsed =>
    /\ fout.value = parse_astm(MessageText(fin.segs, Ascending(Recognized(fin.segs))))
    /\ \A key \in DOMAIN fout.value :
         Suppliers(fin.segs, key) # {} /\
         fout.value[key] = Supplied(Greatest(Suppliers(fin.segs, key)),
                                    fin.segs[Greatest(Suppliers(fin.segs, key))], key)

\* two R segments supply the value, the second one is kept
C16_Witness ==
  /\ Parsed
  /\ Len(fin.segs) = 2
  /\ fin.segs[1].tag = "R"
  /\ fin.segs[2].tag = "R"
  /\ fin.segs[1].nf > 5
  /\ fin.segs[2].nf = 4
  /\ fout.value["value"] = <<"b", "3">>
  /\ fout.value["unit"] = Field4Text(1, fin.segs[1])

\* ---- connections and what became of them ----
Handled == {c \in DOMAIN conns : conns[c].state = "closed" /\ ~conns[c].aborted}
Queued(c) == \E n \in DOMAIN inbox : inbox[n].conn = c
ResultsOf(c) == {r \in DOMAIN origin : origin[r] = c}
LacksMarker(data) ==
  \/ ~\E k \in DOMAIN data : data[k] = STX
  \/ ~\E k \in DOMAIN data : data[k] = ETX

\* the accept loop is running, or it was told to stop
LoopGoesOn == listener.pc \in {"loop", "accept", "recv"} \/ ~listener.running

Discarded(c) ==
  /\ conns[c].outcome # "emit"
  /\ ~Queued(c)
  /\ ResultsOf(c) = {}
  /\ conns[c].logged = "malformed"
  /\ LoopGoesOn

ExampleRow ==
  [sample_id |-> <<"S", "0", "0", "1">>,
   test_name |-> <<"G", "l", "u", "c", "o", "s", "e">>,
   test_result |-> <<"1", "0", ".", "5">>,
   unit |-> <<"m", "g", "/", "d", "L">>,
   reference_range |-> <<"4", ".", "0", "-", "6", ".", "0">>]
ShortRow ==
  [sample_id |-> <<"S", "1">>, test_name |-> <<>>, test_result |-> <<"5">>,
   unit |-> <<>>, reference_range |-> <<>>]

DataOf(row) ==
  [sample_id |-> row.sample_id, test_name |-> row.test_name,
   test_result |-> row.test_result, unit |-> row.unit,
   reference_range |-> row.reference_range]

\* the connection carried the framed payload and its payload has been handled
Ingested(c, text) == c \in Handled /\ conns[c].data = frame(text) /\ ~Queued(c)

\* exactly one Result came from the connection: it holds the data and is
\* Pending, without patient, verifier or finalizer
OneResult(c, data) ==
  /\ Cardinality(ResultsOf(c)) = 1
  /\ \A r \in ResultsOf(c) :
       /\ DataOf(results[r]) = data
       /\ results[r].status = "Pending"
       /\ results[r].patient_id = NULL
       /\ results[r].verified_by_doctor_id = NULL
       /\ results[r].finalized_by_doctor_id = NULL

\* the fields parse_astm finds, an absent one as the empty string
ParsedData(text) ==
  [sample_id |-> get(parse_astm(text), "sample_id"),
   test_name |-> get(parse_astm(text), "test_name"),
   test_result |-> get(parse_astm(text), "value"),
   unit |-> get(parse_astm(text), "unit"),
   reference_range |-> get(parse_astm(text), "ref_range")]

\* C17 as stated: a framed message with O and R segments, once ingested, has
\* created exactly one Result holding the parsed fields, Pending and unlinked.
C17_OneResultPerMessage ==
  \A c \in DOMAIN conns : \A text \in Payloads :
    Ingested(c, text) => OneResult(c, ParsedData(text))

\* C17 amended: a framed message whose O and R segments supply at least one
\* field and whose timestamp field, if any, is a date and time, once ingested,
\* has created exactly one Result holding the parsed fields, Pending and
\* unlinked; the example message gives S001 / Glucose / 10.5 / mg/dL / 4.0-6.0.
C17_OneResultPerParsedMessage ==
  /\ \A c \in DOMAIN conns : \A text \in Payloads :
       (/\ Ingested(c, text)
        /\ parse_astm(text) # <<>>
        /\ ("datetime" \in DOMAIN parse_astm(text) => valid_timestamp(parse_astm(text)["datetime"])))
       => OneResult(c, ParsedData(text))
  /\ \A c \in DOMAIN conns :
       /\ Ingested(c, ExamplePayload) => OneResult(c, ExampleRow)
       /\ Ingested(c, ShortPayload) => OneResult(c, ShortRow)

\* the example message and the short message have both been ingested
C17_Witness ==
  /\ \E c \in DOMAIN conns : Ingested(c, ExamplePayload) /\ ResultsOf(c) # {}
  /\ \E c \in DOMAIN conns : Ingested(c, ShortPayload) /\ ResultsOf(c) # {}

\* C18: whenever stop has been issued to a listener that was in its accept
\* loop, the loop is eventually left, the socket closed and the stop reported.
C18_StopLeadsToStopped ==
  (gui = "waiting" /\ listener.stop_in_loop)
    ~> (listener.pc = "stopped" /\ listener.server_socket = "closed"
          /\ listener.reported = "stopped")

\* the listener stopped after a stop issued while it was reading a connection
C18_Witness ==
  /\ listener.pc = "stopped"
  /\ listener.stop_in_loop
  /\ listener.reported = "stopped"
  /\ \E c \in Handled : \E w \in DOMAIN conns :
       conns[c].client /\ ~conns[w].client /\ c < w /\ conns[w].state = "refused"

\* C19 as stated: while a connection is accepted and not yet handled, every
\* payload of an earlier connection has been parsed and persisted.
C19_HandledBeforeNextAccept ==
  \A c \in DOMAIN conns : conns[c].state = "accepted" => inbox = <<>>

\* C19 amended: the listener holds at most one connection at a time; when it
\* accepts a connection, every connection accepted before has been read and
\* decoded and its payload, if any, handed to the GUI thread (parse and
\* persist follow there).
C19_ReadBeforeNextAccept ==
  \A c \in DOMAIN conns :
    /\ conns[c].state = "accepted" => listener.pc = "recv" /\ listener.conn = c
    /\ conns[c].state = "closed" =>
         /\ conns[c].order > 0
         /\ conns[c].outcome # "none"
         /\ conns[c].outcome = "emit" =>
              \/ Queued(c)
              \/ ResultsOf(c) # {}
              \/ ingest_outcome(decode_frame(conns[c].data).payload) # "saved"

\* a second connection is being read while the payload of the first waits
C19_Witness ==
  /\ listener.pc = "recv"
  /\ Len(inbox) = 1
  /\ inbox[1].conn < listener.conn

\* C20: of two Results, the one with the smaller id came from the frame that
\* was decoded first.
C20_PersistedInDecodeOrder ==
  \A r1, r2 \in DOMAIN origin :
    r1 < r2 => conns[origin[r1]].order < conns[origin[r2]].order

\* two Results that came from two connections
C20_Witness ==
  /\ Len(origin) = 2
  /\ origin[1] # origin[2]
  /\ last.op = "insert_result_details"

\* ======================= verify then finalize =======================
\* C28: a Result whose calls are verify by a doctor of capability Verification
\* followed by finalize by a doctor of capability Finalization is Finalized,
\* verified by the first and finalized by the second.
C28_VerifyThenFinalize ==
  \A r \in Existing : \A a, b \in DOMAIN doctors :
    (/\ applied[r] = << <<"verify", a>>, <<"finalize", b>> >>
     /\ doctors[a].type = "Verification"
     /\ doctors[b].type = "Finalization")
    => /\ Row(r).status = "Finalized"
       /\ Row(r).verified_by_doctor_id = a
       /\ Row(r).finalized_by_doctor_id = b

\* the scenario has run on a Result: two doctors, one of each capability
C28_Witness ==
  \E r \in Existing : \E a, b \in DOMAIN doctors :
    /\ applied[r] = << <<"verify", a>>, <<"finalize", b>> >>
    /\ doctors[a].type = "Verification"
    /\ doctors[b].type = "Finalization"
    /\ last.op = "finalize" /\ last.result_id = r /\ last.ret = "row"

\* C29: finalize(result, d) on a Finalized Result is applied: finalized_by
\* becomes d, status stays Finalized and verified_by is unchanged.
C29_FinalizeAgain ==
  [][\A r \in Existing :
       (last'.op = "finalize" /\ last'.result_id = r /\ Row(r).status = "Finalized")
       => /\ last'.ret = "row"
          /\ results'[r].finalized_by_doctor_id = last'.doctor_id
          /\ results'[r].status = "Finalized"
          /\ results'[r].verified_by_doctor_id = Row(r).verified_by_doctor_id]_vars

\* a second finalize by another doctor replaced the finalizer and kept the
\* verifier the first finalize recorded
C29_Witness ==
  \E r \in Existing :
    /\ Len(applied[r]) = 2
    /\ applied[r][1][1] = "finalize" /\ applied[r][2][1] = "finalize"
    /\ applied[r][1][2] # applied[r][2][2]
    /\ last.op = "finalize" /\ last.result_id = r
    /\ Row(r).finalized_by_doctor_id = applied[r][2][2]
    /\ Row(r).verified_by_doctor_id = applied[r][1][2]

\* ======================= the Patient of a Result =======================
\* the Patient a call of create_patient_for_result is made with
Supplied_Patient(patient_id, p) ==
  Patient(patient_id, p.name, p.age, p.gender, p.phone_number)

\* C26: create_patient_for_result on an existing Result with no linked Patient
\* creates exactly one new Patient with the next external identifier and links
\* it to that Result; on a Result that already has a Patient it creates no
\* Patient, overwrites that Patient's name, age, gender and phone, and leaves
\* the Patient's external identifier and the link unchanged.
C26_CreateOrUpdatePatient ==
  [][\A r \in Existing : \A p \in PatientInputs :
       create_patient_for_result(r, p.name, p.age, p.gender, p.phone_number) =>
         IF Row(r).patient_id = NULL
         THEN /\ patients' = Append(patients,
                   Supplied_Patient(PatientIdOf(Len(patients) + 1), p))
              /\ results' = [results EXCEPT ![r].patient_id = Len(patients) + 1]
         ELSE /\ patients' = [patients EXCEPT ![Row(r).patient_id] =
                   Supplied_Patient(@.patient_id, p)]
              /\ results' = results]_vars

\* one Result, one Patient, two calls made for the Result: the Patient carries
\* what the second call supplied under the identifier the first call gave it
C26_Witness ==
  /\ Len(results) = 1 /\ Len(patients) = 1 /\ nops = 3
  /\ last.op = "create_patient" /\ last.result_id = 1 /\ last.ret = "row"
  /\ Row(1).patient_id = 1
  /\ patients[1].patient_id = PatientIdOf(1)
  /\ patients[1].name = "bob" /\ patients[1].phone_number = "777"

\* C27: the creation of a Patient and its link to the Result are one
\* transaction: in every state of the store a reader can observe, a Patient
\* that has just been stored is the Patient of a Result, and the patient
\* reference of every Result is a stored Patient.
C27_PatientAndLinkTogether ==
  [][/\ \A k \in DOMAIN patients' \ DOMAIN patients :
          \E r \in DOMAIN results' : results'[r].patient_id = k
     /\ \A r \in DOMAIN results' :
          results'[r].patient_id # NULL => results'[r].patient_id \in DOMAIN patients'
    ]_vars

\* a dialog has committed a new Patient for a Result while another dialog is
\* open on the same Result, loaded before the commit
C27_Witness ==
  \E s \in SessionIds :
    /\ sessions[s].pc = "patient"
    /\ sessions[s].loaded.patient_id = NULL
    /\ last.op = "create_patient" /\ last.ret = "row"
    /\ last.result_id = sessions[s].result_id
    /\ Row(last.result_id).patient_id = Len(patients)

\* ======================= stop during the start-up =======================
\* stop() was called before the thread had entered its loop
StoppedDuringStartup == gui = "waiting" /\ ~listener.stop_in_loop

\* C30: a stop request issued after start and before the listener thread has
\* set its running flag or bound its socket still takes effect: the thread
\* terminates (and wait() in stop() returns).
C30_StopDuringStartupTakesEffect ==
  StoppedDuringStartup ~> (listener.pc = "stopped")

\* ======================= errors and the listener =======================
ConnIds == 1..(MaxConns + 1)

\* stop() has been called
StopRequested == ~listener.running \/ gui = "waiting"

\* the handling of connection c raised: the read failed or the bytes between
\* the markers are no text
RaisedInLoop(c) == c \in DOMAIN conns /\ conns[c].outcome = "error"

\* the payload of connection c was delivered and its insertion raised
RaisedInSlot(c) ==
  /\ c \in DOMAIN conns
  /\ conns[c].outcome = "emit"
  /\ ~Queued(c)
  /\ ingested[decoded[conns[c].data].payload].outcome = "error"

\* connection c of a client carries a frame that can be persisted, and an
\* earlier connection raised
ValidAfterError(c) ==
  /\ c \in DOMAIN conns
  /\ conns[c].client
  /\ decoded[conns[c].data].kind = "emit"
  /\ ingested[decoded[conns[c].data].payload].outcome = "saved"
  /\ \E e \in 1..(c - 1) : RaisedInLoop(e) \/ RaisedInSlot(e)

\* the listener thread has returned only after a stop request
EndsOnlyOnStop == listener.pc \in {"finally", "stopped"} => StopRequested

\* unless a stop is requested, the frame of connection c is persisted
PersistedUnlessStopped(c) == ValidAfterError(c) ~> (StopRequested \/ ResultsOf(c) # {})

\* C21 (as stated): every error raised while handling a connection is logged,
\* no error ends the listener, and while no stop is requested a later valid
\* frame is persisted.
C21_ErrorsLoggedAndSurvived ==
  /\ [](\A c \in DOMAIN conns : RaisedInLoop(c) => conns[c].logged = "error")
  /\ []EndsOnlyOnStop
  /\ \A c \in ConnIds : PersistedUnlessStopped(c)

\* C21 (amended): an error raised while handling a connection is logged
\* unless a stop has been requested, no error ends the listener, and while no
\* stop is requested a later valid frame is persisted.
C21_ErrorsSurvived ==
  /\ [](\A c \in DOMAIN conns :
          RaisedInLoop(c) => (conns[c].logged = "error" \/ StopRequested))
  /\ []EndsOnlyOnStop
  /\ \A c \in ConnIds : PersistedUnlessStopped(c)

\* a read failure was logged, the next connection was accepted and its frame
\* persisted, and no stop has been requested
C21_Witness ==
  \E e, c \in DOMAIN conns :
    /\ e < c
    /\ conns[e].aborted /\ conns[e].logged = "error"
    /\ ValidAfterError(c)
    /\ ResultsOf(c) # {}
    /\ ~StopRequested

\* ======================= the searches =======================
\* a search has returned
Searched(fn) == fout.returned /\ fout.fn = fn

\* the filters of a call with filter k left out
Without(f, defaults, k) == [f EXCEPT ![k] = defaults[k]]

\* C22: search_results with no filter supplied returns every stored Result,
\* and the Results returned for a filter combination plus one more filter
\* (sample id, patient id, patient name, test name, status, from, to,
\* without-patient flag) are a subset of those returned without that filter.
C22_FiltersNarrow ==
  Searched("search_results") =>
    /\ fout.filters = NoResultFilters => fout.value = DOMAIN fin.results
    /\ \A k \in DOMAIN NoResultFilters :
         fout.value \subseteq
           search_results(fin.results, fin.patients,
                          Without(fout.filters, NoResultFilters, k))

\* C23: whenever the without-patient flag is supplied, every returned Result
\* has no linked Patient, also when a patient-id or patient-name filter is
\* supplied in the same call.
C23_FlagMeansNoPatient ==
  (Searched("search_results") /\ fout.filters.without_patient_info) =>
    \A r \in fout.value : fin.results[r].patient_id = NULL

\* C24: with a to-date D supplied, a Result is returned exactly when its
\* timestamp is strictly before the start of day D+1 and it satisfies the
\* other filters.
C24_ToDateExclusive ==
  (Searched("search_results") /\ fout.filters.to_date # NULL) =>
    \A r \in DOMAIN fin.results :
      r \in fout.value <=>
        /\ fin.results[r].date_time < datetime(fout.filters.to_date + 1, 0)
        /\ r \in search_results(fin.results, fin.patients,
                                Without(fout.filters, NoResultFilters, "to_date"))

\* value occurs in text, character for character
Substring(text, value) ==
  \E i \in 0..(Len(text) - Len(value)) : SubSeq(text, i + 1, i + Len(value)) = value

\* C25: search_patients returns each matching Patient at most once, and with
\* a sample-identifier filter returns exactly the Patients that satisfy the
\* other filters and have a linked Result whose sample id contains the
\* substring.
C25_PatientsOnceBySample ==
  Searched("search_patients") =>
    /\ \A i, j \in DOMAIN fout.value : fout.value[i] = fout.value[j] => i = j
    /\ fout.filters.sample_id # <<>> =>
         {fout.value[i] : i \in DOMAIN fout.value} =
           {p \in DOMAIN fin.patients :
              /\ \E i \in DOMAIN search_patients(fin.results, fin.patients,
                     Without(fout.filters, NoPatientFilters, "sample_id")) :
                   search_patients(fin.results, fin.patients,
                     Without(fout.filters, NoPatientFilters, "sample_id"))[i] = p
              /\ \E r \in DOMAIN fin.results :
                   /\ fin.results[r].patient_id = p
                   /\ Substring(fin.results[r].sample_id, fout.filters.sample_id)}

\* ======================= eligibility through the dialogs =======================
\* C31 (as stated): with every verify and finalize made with a doctor offered
\* by the dialog, the doctor recorded as verified_by has capability
\* Verification or Both and the doctor recorded as finalized_by has capability
\* Finalization or Both.
C31_RecordedDoctorsCapable ==
  \A r \in Existing :
    /\ Row(r).verified_by_doctor_id # NULL => VerifyCapable(Row(r).verified_by_doctor_id)
    /\ Row(r).finalized_by_doctor_id # NULL => FinalizeCapable(Row(r).finalized_by_doctor_id)

\* doctor d was recorded on Result r by a finalize call
FinalizedBy(r, d) == \E k \in DOMAIN applied[r] : applied[r][k] = <<"finalize", d>>

\* C31 (amended): the doctor recorded as finalized_by has capability
\* Finalization or Both; the doctor recorded as verified_by has capability
\* Verification or Both, or is a doctor of capability Finalization that a
\* finalize call recorded as the implicit verifier.
C31_RecordedDoctorsOffered ==
  \A r \in Existing :
    /\ Row(r).finalized_by_doctor_id # NULL => FinalizeCapable(Row(r).finalized_by_doctor_id)
    /\ Row(r).verified_by_doctor_id # NULL =>
         \/ VerifyCapable(Row(r).verified_by_doctor_id)
         \/ /\ FinalizeCapable(Row(r).verified_by_doctor_id)
            /\ FinalizedBy(r, Row(r).verified_by_doctor_id)

\* the finalization dialog has finalized a Pending Result with a doctor of
\* capability Finalization, who is now also its verifier
C31_Witness ==
  \E r \in Existing :
    /\ Len(applied[r]) = 1
    /\ applied[r][1][1] = "finalize"
    /\ doctors[applied[r][1][2]].type = "Finalization"
    /\ Row(r).verified_by_doctor_id = applied[r][1][2]
    /\ Row(r).finalized_by_doctor_id = applied[r][1][2]
    /\ \E d \in DOMAIN doctors : doctors[d].type = "Verification"

\* C32: with finalization made only through the finalization dialog, a
\* Result's finalized_by, once set, is never replaced by a different doctor.
C32_FinalizerNeverReplaced ==
  [][\A r \in Existing :
       Row(r).finalized_by_doctor_id # NULL =>
         results'[r].finalized_by_doctor_id = Row(r).finalized_by_doctor_id]_vars

\* C33: once the status of a Result has left Pending, no verify, finalize,
\* patient-linking or ingest step returns it to Pending.
C33_NeverBackToPending ==
  [][\A r \in Existing :
       Row(r).status # "Pending" => results'[r].status # "Pending"]_vars

\* a Result that was finalized has just been linked to a new Patient, after
\* a second Result was ingested, and is still Finalized
C33_Witness ==
  /\ Len(results) = 2
  /\ last.op = "create_patient"
  /\ last.ret = "row"
  /\ \E r \in Existing :
       /\ last.result_id = r
       /\ Row(r).patient_id # NULL
       /\ Row(r).status = "Finalized"
       /\ Len(applied[r]) >= 1

\* the columns of a Result that verify and finalize may write
LifecycleColumns == {"status", "verified_by_doctor_id", "finalized_by_doctor_id"}

\* C34: a verify or finalize on Result r changes only r's status, verified_by
\* and finalized_by: r's other columns, every other Result, every Patient and
\* every Doctor are unchanged, and no row is created or deleted.
C34_LifecycleFrame ==
  [][\A r \in Existing :
       applied'[r] # applied[r] =>
         /\ DOMAIN results' = DOMAIN results
         /\ \A q \in Existing \ {r} : results'[q] = results[q]
         /\ \A f \in (DOMAIN Row(r)) \ LifecycleColumns : results'[r][f] = results[r][f]
         /\ patients' = patients
         /\ doctors' = doctors]_vars

\* a verify or finalize has just acted on a Result that is linked to a
\* Patient, with a second Result in the store
C34_Witness ==
  /\ Len(results) = 2
  /\ last.op \in {"verify", "finalize"}
  /\ last.ret = "row"
  /\ last.result_id \in Existing
  /\ Row(last.result_id).patient_id # NULL
  /\ Len(applied[last.result_id]) >= 1

\* the Results linked to Patient p
LinkedResults(p) == {r \in Existing : Row(r).patient_id = p}

\* C38: in every reachable state each stored Patient is linked to exactly one
\* Result.
C38_PatientHasOneResult ==
  \A p \in DOMAIN patients : Cardinality(LinkedResults(p)) = 1

\* ======================= one read per connection =======================
Has(bytes, b) == \E k \in DOMAIN bytes : bytes[k] = b

\* the connection was read and closed with the start marker in the bytes read
\* and the end marker only in the bytes that arrived later
SplitFrame(c) ==
  /\ c \in Handled
  /\ Has(conns[c].data, STX)
  /\ ~Has(conns[c].data, ETX)
  /\ Has(conns[c].rest, ETX)

\* what came of connection c is what its own read alone gives
OwnBytesOnly(c) ==
  /\ conns[c].outcome = decoded[conns[c].data].kind
  /\ \A n \in DOMAIN inbox :
       inbox[n].conn = c => /\ decoded[conns[c].data].kind = "emit"
                            /\ inbox[n].data = decoded[conns[c].data].payload
  /\ \A r \in ResultsOf(c) :
       /\ decoded[conns[c].data].kind = "emit"
       /\ ingested[decoded[conns[c].data].payload].outcome = "saved"
       /\ results[r] = ingested[decoded[conns[c].data].payload].row

\* C36: a connection whose read held the start marker and whose end marker
\* arrived only later produces no payload and no Result, and the payload and
\* the Result of every connection come from the bytes of its own read: the
\* bytes left over never enter the frame of a later connection.
C36_SingleReadNoReassembly ==
  /\ \A c \in DOMAIN conns :
       SplitFrame(c) => /\ conns[c].outcome = "malformed"
                        /\ ~Queued(c)
                        /\ ResultsOf(c) = {}
  /\ \A c \in Handled : OwnBytesOnly(c)

\* a connection was closed with the end marker unread, and a later
\* connection that carried only the end of a frame was found malformed
C36_Witness ==
  \E c \in DOMAIN conns : \E d \in Handled :
    /\ SplitFrame(c)
    /\ Len(conns[c].data) > 2
    /\ conns[c].order < conns[d].order
    /\ conns[d].data = <<LetterA, ETX>>
    /\ conns[d].outcome = "malformed"
    /\ inbox = <<>>
    /\ results = <<>>

\* C37 (as stated): a framed payload from which the parser extracts no field
\* creates no Result, and a payload yielding at least one field creates
\* exactly one Result.
C37_OneResultIffParsed ==
  \A c \in DOMAIN conns : \A text \in StreamPayloads :
    Ingested(c, text) =>
      IF parse_astm(text) = <<>> THEN ResultsOf(c) = {}
      ELSE Cardinality(ResultsOf(c)) = 1

\* C37 (amended): a framed payload from which the parser extracts no field
\* creates no Result; a payload yielding at least one field creates exactly
\* one Result, unless its timestamp field is present and is no date and time,
\* and then it creates none.
C37_OneResultIffParsedAndDated ==
  \A c \in DOMAIN conns : \A text \in StreamPayloads :
    Ingested(c, text) =>
      IF parse_astm(text) = <<>> THEN ResultsOf(c) = {}
      ELSE IF "datetime" \in DOMAIN parse_astm(text)
              /\ ~valid_timestamp(parse_astm(text)["datetime"])
           THEN ResultsOf(c) = {}
           ELSE Cardinality(ResultsOf(c)) = 1

\* a message of H, P and L segments was ingested and created nothing, and the
\* example message created one Result
C37_Witness ==
  \E c, d \in DOMAIN conns :
    /\ Ingested(c, HPLPayload)
    /\ ResultsOf(c) = {}
    /\ Ingested(d, ExamplePayload)
    /\ Cardinality(ResultsOf(d)) = 1
    /\ Len(results) = 1

\* ======================= the reports listing =======================
\* the reports view has searched
Listed == fout.returned /\ fout.fn = "perform_search"

\* C35: the reports listing contains a Result only if its status is
\* Finalized at the time of the search; Pending and Verified Results are
\* never listed.
C35_ReportsListFinalizedOnly ==
  Listed => \A r \in fout.value : fin.results[r].status = "Finalized"

\* a search of the reports view listed a Finalized Result and left out a
\* Verified Result of the same day, sample and test
C35_Witness ==
  /\ Listed
  /\ Len(fin.results) = 2
  /\ fin.results[1].status = "Verified"
  /\ fin.results[2] = [fin.results[1] EXCEPT !.status = "Finalized"]
  /\ fout.value = {2}

====
